---------------------------- MODULE Spec2Model ----------------------------
(***************************************************************************)
(* CareSense secure core: the encrypted object store (crypto/secure_store), *)
(* the homomorphic-encryption context (crypto/fhe), the biometric           *)
(* enrolment/verification service (services/auth_service) and the signed    *)
(* compliance ledger (workflows/compliance).                                *)
(*                                                                          *)
(* One module, one specification per component:                             *)
(*   SpecStore   SecureStore: construct, write, read, tampering             *)
(*   SpecLedger  ComplianceTrail: construct, log_event                      *)
(*   SpecFHE     FHEContext: threads racing through he/initialise           *)
(*   SpecAuth    BiometricAuthService: enrol, verify                        *)
(* Each specification leaves the other components' variables unchanged.     *)
(***************************************************************************)
EXTENDS Integers, Sequences, FiniteSets, TLC

VARIABLES
    \* ---- SecureStore (crypto/secure_store.py) ----
    masterKeyFile,   \* <storage_dir>/.master.key: 0 = absent, else a Fernet key id
    masterKeysMade,  \* how many Fernet keys Fernet.generate_key() has handed out
    storeKey,        \* self._fernet of the process's _STORE: 0 = not constructed
    files,           \* the record files: [path -> Fernet token], DOMAIN = existing paths
    written,         \* observer: name -> the payload object of the last write that returned
    storeLast,       \* observer: the most recent store operation and its outcome
    ctorPc,          \* where each SecureStore construction under way is in _load_or_create_key
    ctorKey,         \* the key each construction holds: its local "key", then self._fernet
    \* ---- ComplianceTrail (workflows/compliance.py) ----
    signKeyFile,     \* audit_logs.ed25519: 0 = absent, else an Ed25519 key-pair id
    signKeysMade,    \* how many key pairs Ed25519PrivateKey.generate() has handed out
    trailKey,        \* self._private_key of each ComplianceTrail: 0 = not constructed
    trailPc,         \* where each ComplianceTrail construction is in _ensure_keys
    ledger,          \* audit_logs.jsonl: the sequence of its lines
    logged,          \* observer: the signatures log_event returned, in call order
    ledgerLast,      \* observer: the most recent ledger operation and its outcome
    auditLast,       \* observer: the most recent verification of a ledger line
    logPc,           \* where each request thread is inside log_event
    logLine,         \* the line each thread has built (and, after the call, wrote)
    logPos,          \* the end of the ledger file when the thread opened it
    \* ---- FHEContext (crypto/fhe.py) ----
    fhe,             \* the two persisted files and the process's _FHE_CONTEXT (see FheInit)
    pc,              \* where each thread of the process is inside he / initialise
    keyGenCalls,     \* keyGen() calls made on _FHE_CONTEXT since the process started
    issued,          \* key pairs under which encrypt_vector has handed out ciphertexts
    \* ---- BiometricAuthService (services/auth_service.py) ----
    enrolled,        \* observer: token id -> the vector enrol was given for it
    authLast,        \* observer: the most recent enrol / verify call and its outcome
    \* ---- POST /triage (api/routes.py, services/triage_service.py) ----
    triageLast,      \* observer: the most recent /triage request and what it did
    \* ---- ReviewService (services/review_service.py) ----
    reviewQueue,     \* review_queue.jsonl: the lines, one case each
    casesIssued,     \* case ids uuid4 has handed out
    reviewsMade,     \* submit_review calls that got past their validation
    accepted,        \* observer: the case ids submit_for_review has returned
    reviewLast,      \* observer: the most recent call of the service and its outcome
    rvPc,            \* where each thread is inside submit_review
    rvCases,         \* the cases and arguments such a thread holds
    \* ---- RateLimitMiddleware (middleware/rate_limit.py) ----
    buckets,         \* self._buckets: (client_ip, endpoint) -> [tokens, last_update]
    clock,           \* time.time()
    last_cleanup,    \* self._last_cleanup
    requestsSeen,    \* requests dispatched so far
    limitLast        \* observer: the most recent _check_rate_limit and its answer

storeVars == <<masterKeyFile, masterKeysMade, storeKey, files, written, storeLast,
              ctorPc, ctorKey>>
ledgerVars == <<signKeyFile, signKeysMade, trailKey, trailPc, ledger, logged, ledgerLast,
               auditLast, logPc, logLine, logPos>>
fheVars == <<fhe, pc, keyGenCalls, issued>>
authVars == <<enrolled, authLast>>
triageVars == <<triageLast>>
reviewVars == <<reviewQueue, casesIssued, reviewsMade, accepted, reviewLast, rvPc, rvCases>>
limitVars == <<buckets, clock, last_cleanup, requestsSeen, limitLast>>
appVars == <<triageVars, reviewVars, limitVars>>

-----------------------------------------------------------------------------
(***************************************************************************)
(* Python values and JSON text.                                            *)
(*                                                                         *)
(* A Python value is a record [t, n, s, items]:                            *)
(*   t = "none" | "bool" | "int" | "str" | "list" | "tuple" | "dict" |     *)
(*       "bytes";  n the number (bool: 0/1);  s the characters of a str,   *)
(*   as a sequence of character codes;  items the elements of a list or    *)
(*   tuple, or the entries [k, v] of a dict in insertion order.            *)
(* JSON text is a record of the same shape with                            *)
(*   t = "jnull" | "jbool" | "jnum" | "jstr" | "jarr" | "jobj" and, for an *)
(*   object, items = the members [k, v] in the order they are written, k   *)
(*   the member name's characters. Two texts are the same bytes iff the    *)
(*   records are equal.  t = "TypeError" stands for json.dumps raising.    *)
(***************************************************************************)
PyNone      == [t |-> "none",  n |-> 0, s |-> <<>>, items |-> <<>>]
PyBool(b)   == [t |-> "bool",  n |-> IF b THEN 1 ELSE 0, s |-> <<>>, items |-> <<>>]
PyInt(i)    == [t |-> "int",   n |-> i, s |-> <<>>, items |-> <<>>]
PyStr(cs)   == [t |-> "str",   n |-> 0, s |-> cs,   items |-> <<>>]
PyList(xs)  == [t |-> "list",  n |-> 0, s |-> <<>>, items |-> xs]
PyTuple(xs) == [t |-> "tuple", n |-> 0, s |-> <<>>, items |-> xs]
PyDict(es)  == [t |-> "dict",  n |-> 0, s |-> <<>>, items |-> es]
PyBytes(cs) == [t |-> "bytes", n |-> 0, s |-> cs,   items |-> <<>>]
Entry(key, val) == [k |-> key, v |-> val]

JNull       == [t |-> "jnull", n |-> 0, s |-> <<>>, items |-> <<>>]
JBool(i)    == [t |-> "jbool", n |-> i, s |-> <<>>, items |-> <<>>]
JNum(i)     == [t |-> "jnum",  n |-> i, s |-> <<>>, items |-> <<>>]
JStr(cs)    == [t |-> "jstr",  n |-> 0, s |-> cs,   items |-> <<>>]
JArr(xs)    == [t |-> "jarr",  n |-> 0, s |-> <<>>, items |-> xs]
JObj(ms)    == [t |-> "jobj",  n |-> 0, s |-> <<>>, items |-> ms]
JTypeError  == [t |-> "TypeError", n |-> 0, s |-> <<>>, items |-> <<>>]

\* Character codes (ASCII) of the strings the model uses.
S_a          == <<97>>
S_b          == <<98>>
S_k          == <<107>>
S_n          == <<110>>
S_x          == <<120>>
S_event      == <<101, 118, 101, 110, 116>>
S_payload    == <<112, 97, 121, 108, 111, 97, 100>>
S_timestamp  == <<116, 105, 109, 101, 115, 116, 97, 109, 112>>
S_ciphertext == <<99, 105, 112, 104, 101, 114, 116, 101, 120, 116>>
S_true       == <<116, 114, 117, 101>>
S_false      == <<102, 97, 108, 115, 101>>
S_null       == <<110, 117, 108, 108>>

\* str(i) for i >= 0: the decimal digits ("0" is code 48).
RECURSIVE IntToStr(_)
IntToStr(i) ==
    IF i < 10 THEN <<48 + i>>
    ELSE IntToStr(i \div 10) \o <<48 + (i % 10)>>

\* a < b for two str objects: by code point, a proper prefix first.
RECURSIVE StrLess(_, _)
StrLess(a, b) ==
    IF b = <<>> THEN FALSE
    ELSE IF a = <<>> THEN TRUE
    ELSE IF Head(a) # Head(b) THEN Head(a) < Head(b)
    ELSE StrLess(Tail(a), Tail(b))

IsNumberKey(key) == key.t \in {"int", "bool"}

\* Whether Python can order two dict keys with "<" (what sorted() needs):
\* str with str, numbers with numbers; anything else raises TypeError.
KeysComparable(a, b) ==
    \/ a.t = "str" /\ b.t = "str"
    \/ IsNumberKey(a) /\ IsNumberKey(b)

KeyLess(a, b) ==
    IF a.t = "str" THEN StrLess(a.s, b.s) ELSE a.n < b.n

\* The member name json writes for a dict key (encoder.py: str as is, bool ->
\* "true"/"false", None -> "null", int -> its decimal digits).
KeyToStr(key) ==
    CASE key.t = "str"  -> key.s
      [] key.t = "int"  -> IntToStr(key.n)
      [] key.t = "bool" -> IF key.n = 1 THEN S_true ELSE S_false
      [] OTHER          -> S_null

KeyAllowed(key) == key.t \in {"str", "int", "bool", "none"}

\* sorted(dct.items()): insertion sort of the entries by key.
RECURSIVE InsertEntry(_, _)
InsertEntry(e, sorted) ==
    IF sorted = <<>> THEN <<e>>
    ELSE IF KeyLess(e.k, Head(sorted).k) THEN <<e>> \o sorted
    ELSE <<Head(sorted)>> \o InsertEntry(e, Tail(sorted))

RECURSIVE SortEntries(_)
SortEntries(es) ==
    IF es = <<>> THEN <<>> ELSE InsertEntry(Head(es), SortEntries(Tail(es)))

AllComparable(es) ==
    \A i, j \in 1..Len(es) : KeysComparable(es[i].k, es[j].k)

\* json.dumps(obj, sort_keys=sort_keys): the text, or JTypeError when it raises.
RECURSIVE json_dumps(_, _)
json_dumps(obj, sort_keys) ==
    CASE obj.t = "none" -> JNull
      [] obj.t = "bool" -> JBool(obj.n)
      [] obj.t = "int"  -> JNum(obj.n)
      [] obj.t = "str"  -> JStr(obj.s)
      [] obj.t \in {"list", "tuple"} ->
            LET xs == [i \in 1..Len(obj.items) |-> json_dumps(obj.items[i], sort_keys)]
            IN  IF \E i \in 1..Len(xs) : xs[i] = JTypeError THEN JTypeError ELSE JArr(xs)
      [] obj.t = "dict" ->
            IF \E i \in 1..Len(obj.items) : ~KeyAllowed(obj.items[i].k) THEN JTypeError
            ELSE IF sort_keys /\ ~AllComparable(obj.items) THEN JTypeError
            ELSE LET es == IF sort_keys THEN SortEntries(obj.items) ELSE obj.items
                     ms == [i \in 1..Len(es) |->
                              Entry(KeyToStr(es[i].k), json_dumps(es[i].v, sort_keys))]
                 IN  IF \E i \in 1..Len(ms) : ms[i].v = JTypeError
                     THEN JTypeError ELSE JObj(ms)
      [] OTHER -> JTypeError

\* dict construction from the members of a JSON object: a repeated name keeps
\* its first position and takes the last value.
RECURSIVE PutEntry(_, _)
PutEntry(es, e) ==
    IF es = <<>> THEN <<e>>
    ELSE IF Head(es).k = e.k THEN <<e>> \o Tail(es)
    ELSE <<Head(es)>> \o PutEntry(Tail(es), e)

RECURSIVE json_loads(_)
RECURSIVE LoadMembers(_, _)
LoadMembers(ms, acc) ==
    IF ms = <<>> THEN acc
    ELSE LoadMembers(Tail(ms),
                     PutEntry(acc, Entry(PyStr(Head(ms).k), json_loads(Head(ms).v))))

json_loads(text) ==
    CASE text.t = "jnull" -> PyNone
      [] text.t = "jbool" -> PyBool(text.n = 1)
      [] text.t = "jnum"  -> PyInt(text.n)
      [] text.t = "jstr"  -> PyStr(text.s)
      [] text.t = "jarr"  -> PyList([i \in 1..Len(text.items) |-> json_loads(text.items[i])])
      [] OTHER            -> PyDict(LoadMembers(text.items, <<>>))

\* Python's == on two values: a list never equals a tuple, dicts compare as
\* mappings (entry order does not matter), True == 1 and False == 0.
RECURSIVE DeepEqual(_, _)
DeepEqual(a, b) ==
    CASE a.t \in {"int", "bool"} /\ b.t \in {"int", "bool"} -> a.n = b.n
      [] a.t # b.t -> FALSE
      [] a.t \in {"str", "bytes"} -> a.s = b.s
      [] a.t \in {"list", "tuple"} ->
            /\ Len(a.items) = Len(b.items)
            /\ \A i \in 1..Len(a.items) : DeepEqual(a.items[i], b.items[i])
      [] a.t = "dict" ->
            /\ Len(a.items) = Len(b.items)
            /\ \A i \in 1..Len(a.items) : \E j \in 1..Len(b.items) :
                  /\ DeepEqual(a.items[i].k, b.items[j].k)
                  /\ DeepEqual(a.items[i].v, b.items[j].v)
      [] OTHER -> TRUE

\* A value built only from what JSON has: None, bool, int, str, list, and dict
\* with str keys.
RECURSIVE JsonNative(_)
JsonNative(obj) ==
    CASE obj.t \in {"none", "bool", "int", "str"} -> TRUE
      [] obj.t = "list" -> \A i \in 1..Len(obj.items) : JsonNative(obj.items[i])
      [] obj.t = "dict" -> \A i \in 1..Len(obj.items) :
                              obj.items[i].k.t = "str" /\ JsonNative(obj.items[i].v)
      [] OTHER -> FALSE

-----------------------------------------------------------------------------
(***************************************************************************)
(* SecureStore (crypto/secure_store.py).                                   *)
(*                                                                         *)
(* A record name is the sequence of its path components ("a/b" is          *)
(* <<"a", "b">>); the storage directory holds no sub-directories and the   *)
(* store never creates one.  A Fernet token is [key, plain, intact]: the   *)
(* key it was encrypted under, the plaintext bytes (JSON text) and whether *)
(* the stored bytes are still the ones Fernet produced.  Fernet is         *)
(* authenticated: decrypt returns the plaintext only for an intact token   *)
(* under the same key and raises InvalidToken otherwise.                   *)
(***************************************************************************)
Names == {<<"rec1">>, <<"rec2">>, <<"sub", "rec">>}

StorePayloads ==
    { PyDict(<<Entry(PyStr(S_ciphertext), PyStr(S_x))>>),
      PyDict(<<Entry(PyStr(S_b), PyList(<<PyInt(1)>>)), Entry(PyStr(S_a), PyNone)>>),
      PyList(<<PyInt(1), PyInt(2)>>),
      PyTuple(<<PyInt(1), PyInt(2)>>),
      PyDict(<<Entry(PyInt(1), PyStr(S_a))>>),
      PyBytes(S_x) }

NoOp == [op |-> "none", name |-> <<>>, kind |-> "none", val |-> PyNone, err |-> ""]
Returned(op, name, val) ==
    [op |-> op, name |-> name, kind |-> "return", val |-> val, err |-> ""]
Raised(op, name, err) ==
    [op |-> op, name |-> name, kind |-> "raise", val |-> PyNone, err |-> err]

\* A store that forgets the name: every record lands in the same file.
path_for_OneFile(name) ==
    [dir  |-> SubSeq(name, 1, Len(name) - 1),
     file |-> <<"record", ".bin">>]

\* self._storage_dir / f"{name}.bin"
path_for(name) ==
    [dir  |-> SubSeq(name, 1, Len(name) - 1),
     file |-> <<name[Len(name)], ".bin">>]

\* Path.write_bytes needs the parent directory: only the storage root exists.
ParentExists(path) == path.dir = <<>>

FernetEncrypt(key, data) == [key |-> key, plain |-> data, intact |-> TRUE]
FernetValid(key, token)  == token.intact /\ token.key = key

\* SecureStore.__init__ / _load_or_create_key: the module-level _STORE is
\* constructed when the process starts.
NewStore ==
    /\ IF masterKeyFile # 0
       THEN /\ storeKey' = masterKeyFile
            /\ UNCHANGED <<masterKeyFile, masterKeysMade>>
       ELSE /\ masterKeysMade' = masterKeysMade + 1
            /\ masterKeyFile' = masterKeysMade + 1
            /\ storeKey' = masterKeysMade + 1
    /\ storeLast' = NoOp
    /\ UNCHANGED <<files, written, ctorPc, ctorKey>>

\* A write that reports success without persisting anything.
write_NotPersisted(fs, key, name, payload) ==
    [files |-> fs, out |-> Returned("write", name, PyNone)]

\* SecureStore.write(name, payload), as a function of the files: the files
\* afterwards and the outcome.
write(fs, key, name, payload) ==
    LET data == json_dumps(payload, FALSE)
        path == path_for(name)
    IN  IF data = JTypeError
        THEN [files |-> fs, out |-> Raised("write", name, "TypeError")]
        ELSE IF ~ParentExists(path)
        THEN [files |-> fs, out |-> Raised("write", name, "FileNotFoundError")]
        ELSE [files |-> [p \in DOMAIN fs \cup {path} |->
                            IF p = path THEN FernetEncrypt(key, data) ELSE fs[p]],
              out   |-> Returned("write", name, PyNone)]

\* SecureStore.read(name): the outcome.
read(fs, key, name) ==
    LET path == path_for(name)
    IN  IF path \notin DOMAIN fs
        THEN Returned("read", name, PyNone)
        ELSE IF ~FernetValid(key, fs[path])
        THEN Raised("read", name, "InvalidToken")
        ELSE Returned("read", name, json_loads(fs[path].plain))

Write(name, payload) ==
    /\ storeKey # 0
    /\ LET r == write(files, storeKey, name, payload)
       IN  /\ files' = r.files
           /\ storeLast' = r.out
           /\ written' = IF r.out.kind = "return"
                         THEN [m \in DOMAIN written \cup {name} |->
                                  IF m = name THEN payload ELSE written[m]]
                         ELSE written
    /\ UNCHANGED <<masterKeyFile, masterKeysMade, storeKey, ctorPc, ctorKey>>

Read(name) ==
    /\ storeKey # 0
    /\ storeLast' = read(files, storeKey, name)
    /\ UNCHANGED <<masterKeyFile, masterKeysMade, storeKey, files, written, ctorPc, ctorKey>>

\* The environment corrupts or tampers with the stored bytes of a record.
Tamper(path) ==
    /\ path \in DOMAIN files
    /\ files[path].intact
    /\ files' = [files EXCEPT ![path].intact = FALSE]
    /\ storeLast' = NoOp
    /\ UNCHANGED <<masterKeyFile, masterKeysMade, storeKey, written, ctorPc, ctorKey>>

\* ---- SecureStore constructions side by side -------------------------------
\* Several processes (or threads) construct a SecureStore on the same storage
\* root; each goes through _load_or_create_key one statement at a time, and
\* then writes and reads records with the key it ended up with.
MaxMasterKeys == 3

Ctors == {"p1", "p2"}

\* SecureStore(): a construction begins (again, when the process restarts).
CtorBegin(c) ==
    /\ ctorPc[c] \in {"none", "ready"}
    /\ ctorPc' = [ctorPc EXCEPT ![c] = "exists"]
    /\ ctorKey' = [ctorKey EXCEPT ![c] = 0]
    /\ storeLast' = NoOp
    /\ UNCHANGED <<masterKeyFile, masterKeysMade, storeKey, files, written>>

\* if self._key_path.exists():
CtorKeyPathExists(c) ==
    /\ ctorPc[c] = "exists"
    /\ ctorPc' = [ctorPc EXCEPT ![c] = IF masterKeyFile # 0 THEN "read_bytes"
                                       ELSE "generate_key"]
    /\ UNCHANGED <<masterKeyFile, masterKeysMade, storeKey, files, written, storeLast,
                   ctorKey>>

\* return self._key_path.read_bytes(), and Fernet(...) of it.
CtorReadBytes(c) ==
    /\ ctorPc[c] = "read_bytes"
    /\ ctorKey' = [ctorKey EXCEPT ![c] = masterKeyFile]
    /\ ctorPc' = [ctorPc EXCEPT ![c] = "ready"]
    /\ UNCHANGED <<masterKeyFile, masterKeysMade, storeKey, files, written, storeLast>>

\* key = Fernet.generate_key()
CtorGenerateKey(c) ==
    /\ ctorPc[c] = "generate_key"
    /\ masterKeysMade < MaxMasterKeys
    /\ masterKeysMade' = masterKeysMade + 1
    /\ ctorKey' = [ctorKey EXCEPT ![c] = masterKeysMade + 1]
    /\ ctorPc' = [ctorPc EXCEPT ![c] = "write_bytes"]
    /\ UNCHANGED <<masterKeyFile, storeKey, files, written, storeLast>>

\* self._key_path.write_bytes(key); return key, and Fernet(...) of it.
CtorWriteBytes(c) ==
    /\ ctorPc[c] = "write_bytes"
    /\ masterKeyFile' = ctorKey[c]
    /\ ctorPc' = [ctorPc EXCEPT ![c] = "ready"]
    /\ UNCHANGED <<masterKeysMade, storeKey, files, written, storeLast, ctorKey>>

\* write(name, payload) on the constructed instance.
CtorWrite(c, name, payload) ==
    /\ ctorPc[c] = "ready"
    /\ LET r == write(files, ctorKey[c], name, payload)
       IN  /\ files' = r.files
           /\ storeLast' = r.out
    /\ UNCHANGED <<masterKeyFile, masterKeysMade, storeKey, written, ctorPc, ctorKey>>

\* read(name) on the constructed instance.
CtorRead(c, name) ==
    /\ ctorPc[c] = "ready"
    /\ storeLast' = read(files, ctorKey[c], name)
    /\ UNCHANGED <<masterKeyFile, masterKeysMade, storeKey, files, written, ctorPc, ctorKey>>

InitStore ==
    /\ ctorPc = [c \in Ctors |-> "none"]
    /\ ctorKey = [c \in Ctors |-> 0]
    /\ masterKeyFile = 0
    /\ masterKeysMade = 0
    /\ storeKey = 0
    /\ files = <<>>
    /\ written = <<>>
    /\ storeLast = NoOp

-----------------------------------------------------------------------------
(***************************************************************************)
(* ComplianceTrail (workflows/compliance.py).                              *)
(*                                                                         *)
(* An Ed25519 signature is [key, msg]: the key pair that signed and the    *)
(* exact bytes signed (Ed25519 is deterministic); it verifies against a    *)
(* public key and a message iff both are the same.  A ledger line is the   *)
(* JSON object json.dumps(record) writes, kept as its three members in     *)
(* the order written: the texts of timestamp and payload and the           *)
(* signature (its hex digits stand for the signature itself).              *)
(***************************************************************************)
MaxLedger == 2

Trails == {"triage", "review"}
Timestamps == {1, 2}

LedgerPayloads ==
    { PyDict(<<Entry(PyStr(S_event), PyStr(S_x)), Entry(PyStr(S_n), PyInt(1))>>),
      PyDict(<<Entry(PyStr(S_event), PyStr(S_x)), Entry(PyStr(S_n), PyInt(2))>>),
      PyDict(<<Entry(PyStr(S_k), PyTuple(<<PyInt(1), PyInt(2)>>))>>),
      PyDict(<<Entry(PyStr(S_k),
                     PyDict(<<Entry(PyInt(2), PyStr(S_a)), Entry(PyInt(10), PyStr(S_b))>>))>>),
      PyDict(<<Entry(PyStr(S_k), PyBytes(S_x))>>) }

NoSig == [key |-> 0, msg |-> JNull]
Ed25519Sign(key, msg) == [key |-> key, msg |-> msg]

\* A verification that checks who signed and not what was signed.
Ed25519Verify_KeyOnly(pub, sig, msg) == sig.key = pub

Ed25519Verify(pub, sig, msg) == sig.key = pub /\ sig.msg = msg

\* datetime.now(timezone.utc).isoformat(): the instant's text.
isoformat(ts) == PyStr(IntToStr(ts))

LedgerNoOp == [op |-> "none", kind |-> "none", sig |-> NoSig, err |-> ""]

AuditNoOp == [op |-> "none", index |-> 0, line |-> <<>>, ok |-> FALSE]

\* ComplianceTrail.__init__ / _ensure_keys.
NewTrail(inst) ==
    /\ auditLast = AuditNoOp
    /\ IF signKeyFile # 0
       THEN /\ trailKey' = [trailKey EXCEPT ![inst] = signKeyFile]
            /\ UNCHANGED <<signKeyFile, signKeysMade>>
       ELSE /\ signKeysMade' = signKeysMade + 1
            /\ signKeyFile' = signKeysMade + 1
            /\ trailKey' = [trailKey EXCEPT ![inst] = signKeysMade + 1]
    /\ trailPc' = [trailPc EXCEPT ![inst] = "ready"]
    /\ ledgerLast' = LedgerNoOp
    /\ UNCHANGED <<ledger, logged, auditLast, logPc, logLine, logPos>>

\* ComplianceTrail.public_key_pem: the public half of the instance's key pair.
public_key_pem(inst) == trailKey[inst]

normalized(ts, payload) ==
    PyDict(<<Entry(PyStr(S_timestamp), isoformat(ts)), Entry(PyStr(S_payload), payload)>>)

\* The ledger opened with mode "w": the write replaces the file.
AppendLine_Truncating(lines, line) == <<line>>

\* with self._log_path.open("a") as fp: fp.write(line + os.linesep)
AppendLine(lines, line) == Append(lines, line)

\* ComplianceTrail.log_event(payload) at instant ts, as a function of the
\* ledger file: the file afterwards and the outcome.
log_event(lines, key, ts, payload) ==
    LET serialized == json_dumps(normalized(ts, payload), TRUE)
        signature  == Ed25519Sign(key, serialized)
        line == [timestamp |-> json_dumps(isoformat(ts), FALSE),
                 payload   |-> json_dumps(payload, FALSE),
                 signature |-> signature]
    IN  IF serialized = JTypeError
        THEN [ledger |-> lines,
              out |-> [op |-> "log_event", kind |-> "raise", sig |-> NoSig,
                       err |-> "TypeError"]]
        ELSE [ledger |-> AppendLine(lines, line),
              out |-> [op |-> "log_event", kind |-> "return", sig |-> signature,
                       err |-> ""]]

LogEvent(inst, ts, payload) ==
    /\ auditLast = AuditNoOp
    /\ trailPc[inst] = "ready"
    /\ Len(ledger) < MaxLedger
    /\ LET r == log_event(ledger, trailKey[inst], ts, payload)
       IN  /\ ledger' = r.ledger
           /\ ledgerLast' = r.out
           /\ logged' = IF r.out.kind = "return" THEN Append(logged, r.out.sig)
                        ELSE logged
    /\ UNCHANGED <<signKeyFile, signKeysMade, trailKey, trailPc, auditLast, logPc, logLine, logPos>>

\* The verification protocol of a ledger line: parse the line, re-serialize
\* {timestamp, payload} with sorted keys, check the signature over those bytes.
VerifyLine(line, pub) ==
    LET ts      == json_loads(line.timestamp)
        payload == json_loads(line.payload)
        again   == json_dumps(PyDict(<<Entry(PyStr(S_timestamp), ts),
                                       Entry(PyStr(S_payload), payload)>>), TRUE)
    IN  Ed25519Verify(pub, line.signature, again)

\* The texts a third party may find in place of a line's payload: what
\* json.dumps writes for the payloads, the first one with its members the
\* other way round, and with a member repeated.
AlteredPayloads ==
    ({ json_dumps(payload, FALSE) : payload \in LedgerPayloads } \ {JTypeError})
    \cup { JObj(<<Entry(S_n, JNum(1)), Entry(S_event, JStr(S_x))>>),
           JObj(<<Entry(S_n, JNum(2)), Entry(S_event, JStr(S_x)), Entry(S_n, JNum(1))>>) }

\* ... and in place of its timestamp.
AlteredTimestamps ==
    { json_dumps(isoformat(ts), FALSE) : ts \in Timestamps } \cup {JNum(1)}

\* A verifier takes line i of the ledger as it finds it (timestamp and payload
\* possibly altered since log_event wrote them) and runs the protocol against
\* the public key an instance publishes.
VerifyLedgerLine(i, inst, ts_text, payload_text) ==
    /\ auditLast = AuditNoOp
    /\ i \in 1..Len(ledger)
    /\ trailKey[inst] # 0
    /\ LET found == [ledger[i] EXCEPT !.timestamp = ts_text, !.payload = payload_text]
       IN  auditLast' = [op |-> "verify", index |-> i, line |-> found,
                         ok |-> VerifyLine(found, public_key_pem(inst))]
    /\ ledgerLast' = LedgerNoOp
    /\ UNCHANGED <<signKeyFile, signKeysMade, trailKey, trailPc, ledger, logged, logPc, logLine, logPos>>

\* The verifier has its verdict; nothing of the ledger changes.
AuditReturn ==
    /\ auditLast # AuditNoOp
    /\ auditLast' = AuditNoOp
    /\ UNCHANGED <<signKeyFile, signKeysMade, trailKey, trailPc, ledger, logged, ledgerLast,
                   logPc, logLine, logPos>>

\* ---- log_event calls side by side, in the threads of one process ------------
\* Each thread goes through log_event one statement at a time.  The file is
\* opened in append mode with Python's buffered text I/O: fp.write leaves the
\* line in the file object's buffer, and leaving the "with" block flushes it
\* in one write call of the operating system, which O_APPEND puts at the end
\* of the file as it is then.
LogThreads == {"r1", "r2"}

NoLine == [timestamp |-> JNull, payload |-> JNull, signature |-> NoSig]

InFlight == {t \in LogThreads : logPc[t] # "idle"}

\* A file offset taken when the file was opened.
write_position_AtOpen(opened_at, lines) == opened_at

\* Mode "a": where a write call lands, the end of the file at that moment.
write_position(opened_at, lines) == Len(lines)

\* The file after a write call has put one line at an offset (counted in
\* lines): a line already there is overwritten.
write_at(lines, pos, line) ==
    [i \in 1..(IF pos + 1 > Len(lines) THEN pos + 1 ELSE Len(lines)) |->
        IF i = pos + 1 THEN line ELSE lines[i]]

\* timestamp, normalized, serialized, signature, record: the line is built.
LogBuild(t, inst, ts, payload) ==
    /\ logPc[t] = "idle"
    /\ auditLast = AuditNoOp
    /\ trailKey[inst] # 0
    /\ Len(logged) + Cardinality(InFlight) < MaxLedger
    /\ LET r == log_event(<<>>, trailKey[inst], ts, payload)
       IN  IF r.out.kind = "raise"
           THEN /\ ledgerLast' = r.out
                /\ UNCHANGED <<logPc, logLine>>
           ELSE /\ logLine' = [logLine EXCEPT ![t] = r.ledger[1]]
                /\ logPc' = [logPc EXCEPT ![t] = "open"]
                /\ ledgerLast' = LedgerNoOp
    /\ UNCHANGED <<signKeyFile, signKeysMade, trailKey, trailPc, ledger, logged, auditLast, logPos>>

\* with self._log_path.open("a", encoding="utf-8") as fp:
LogOpen(t) ==
    /\ logPc[t] = "open"
    /\ logPos' = [logPos EXCEPT ![t] = Len(ledger)]
    /\ logPc' = [logPc EXCEPT ![t] = "write"]
    /\ UNCHANGED <<signKeyFile, signKeysMade, trailKey, trailPc, ledger, logged, ledgerLast,
                   auditLast, logLine>>

\* fp.write(json.dumps(record) + os.linesep): into the buffer.
LogWrite(t) ==
    /\ logPc[t] = "write"
    /\ logPc' = [logPc EXCEPT ![t] = "close"]
    /\ UNCHANGED <<signKeyFile, signKeysMade, trailKey, trailPc, ledger, logged, ledgerLast,
                   auditLast, logLine, logPos>>

\* The "with" block ends: the buffer goes to the file; return record["signature"].
LogClose(t) ==
    /\ logPc[t] = "close"
    /\ ledger' = write_at(ledger, write_position(logPos[t], ledger), logLine[t])
    /\ logged' = Append(logged, logLine[t].signature)
    /\ ledgerLast' = [op |-> "log_event", kind |-> "return",
                      sig |-> logLine[t].signature, err |-> ""]
    /\ logPc' = [logPc EXCEPT ![t] = "idle"]
    /\ UNCHANGED <<signKeyFile, signKeysMade, trailKey, trailPc, auditLast, logLine, logPos>>

\* ---- ComplianceTrail constructions side by side ----------------------------
\* A ComplianceTrail is constructed by each TriageService, each ReviewService
\* and each request that depends on get_compliance_dependency; _ensure_keys
\* runs in each, one statement at a time.

\* ComplianceTrail(): __init__ reaches _ensure_keys.
TrailBegin(inst) ==
    /\ trailPc[inst] \in {"none", "ready"}
    /\ trailPc' = [trailPc EXCEPT ![inst] = "exists"]
    /\ trailKey' = [trailKey EXCEPT ![inst] = 0]
    /\ UNCHANGED <<signKeyFile, signKeysMade, ledger, logged, ledgerLast, auditLast,
                   logPc, logLine, logPos>>

\* if self._key_path.exists():
TrailKeyPathExists(inst) ==
    /\ trailPc[inst] = "exists"
    /\ trailPc' = [trailPc EXCEPT ![inst] = IF signKeyFile # 0 THEN "read_bytes"
                                            ELSE "generate"]
    /\ UNCHANGED <<signKeyFile, signKeysMade, trailKey, ledger, logged, ledgerLast,
                   auditLast, logPc, logLine, logPos>>

\* self._private_key = Ed25519PrivateKey.from_private_bytes(self._key_path.read_bytes())
TrailReadBytes(inst) ==
    /\ trailPc[inst] = "read_bytes"
    /\ trailKey' = [trailKey EXCEPT ![inst] = signKeyFile]
    /\ trailPc' = [trailPc EXCEPT ![inst] = "ready"]
    /\ UNCHANGED <<signKeyFile, signKeysMade, ledger, logged, ledgerLast, auditLast,
                   logPc, logLine, logPos>>

\* self._private_key = Ed25519PrivateKey.generate()
TrailGenerate(inst) ==
    /\ trailPc[inst] = "generate"
    /\ signKeysMade' = signKeysMade + 1
    /\ trailKey' = [trailKey EXCEPT ![inst] = signKeysMade + 1]
    /\ trailPc' = [trailPc EXCEPT ![inst] = "write_bytes"]
    /\ UNCHANGED <<signKeyFile, ledger, logged, ledgerLast, auditLast,
                   logPc, logLine, logPos>>

\* self._key_path.write_bytes(self._private_key.private_bytes(...))
TrailWriteBytes(inst) ==
    /\ trailPc[inst] = "write_bytes"
    /\ signKeyFile' = trailKey[inst]
    /\ trailPc' = [trailPc EXCEPT ![inst] = "ready"]
    /\ UNCHANGED <<signKeysMade, trailKey, ledger, logged, ledgerLast, auditLast,
                   logPc, logLine, logPos>>

InitLedger ==
    /\ logPc = [t \in LogThreads |-> "idle"]
    /\ logLine = [t \in LogThreads |-> NoLine]
    /\ logPos = [t \in LogThreads |-> 0]
    /\ auditLast = AuditNoOp
    /\ signKeyFile = 0
    /\ signKeysMade = 0
    /\ trailKey = [inst \in Trails |-> 0]
    /\ trailPc = [inst \in Trails |-> "none"]
    /\ ledger = <<>>
    /\ logged = <<>>
    /\ ledgerLast = LedgerNoOp

-----------------------------------------------------------------------------
(***************************************************************************)
(* FHEContext (crypto/fhe.py).                                             *)
(*                                                                         *)
(* fhe holds the persisted files and the one FHEContext of the process:    *)
(*   ctxFile, secFile   fhe_context.bin and fhe_secret.bin: 0 = absent,    *)
(*                      else the key pair whose context and public         *)
(*                      material / secret key the file holds               *)
(*   heCtx, heSec       what self._he holds in memory (0 = nothing)        *)
(*   initialised        self._initialised                                  *)
(*   keysMade           how many key pairs keyGen() has handed out         *)
(* Every step of initialise is a function of this record, so the whole     *)
(* call (initialise, he) is their composition and a thread of SpecFHE      *)
(* takes them one at a time.                                               *)
(***************************************************************************)
MaxFheKeys == 3

FheThreads == {"t1", "t2"}

FheInit ==
    [ctxFile |-> 0, secFile |-> 0, heCtx |-> 0, heSec |-> 0,
     initialised |-> FALSE, keysMade |-> 0]

\* An initialise that never finds the persisted files.
context_files_exist_Never(f) == FALSE

context_files_exist(f) == f.ctxFile # 0 /\ f.secFile # 0

\* contextGen(...); keyGen(); rotateKeyGen(): a fresh key pair in memory.
contextGen_keyGen(f) ==
    [f EXCEPT !.heCtx = f.keysMade + 1, !.heSec = f.keysMade + 1,
              !.keysMade = f.keysMade + 1]
save_context(f)    == [f EXCEPT !.ctxFile = f.heCtx]
save_secret_key(f) == [f EXCEPT !.secFile = f.heSec]
load_context(f)    == [f EXCEPT !.heCtx = f.ctxFile]
load_secret_key(f) == [f EXCEPT !.heSec = f.secFile]
mark_initialised(f) == [f EXCEPT !.initialised = TRUE]

\* FHEContext.initialise, run without interruption.
initialise(f) ==
    IF f.initialised THEN f
    ELSE IF context_files_exist(f)
    THEN mark_initialised(load_secret_key(load_context(f)))
    ELSE mark_initialised(save_secret_key(save_context(contextGen_keyGen(f))))

\* FHEContext.he, run without interruption.
he(f) == IF ~f.initialised THEN initialise(f) ELSE f

\* The branch initialise takes after its two tests.
initialise_branch(f) ==
    IF f.initialised THEN "use"
    ELSE IF context_files_exist(f) THEN "load_context"
    ELSE "contextGen"

\* --- one thread inside encrypt_vector: he, then initialise step by step ---
HeEnter(t) ==
    /\ pc[t] = "idle"
    /\ pc' = [pc EXCEPT ![t] = IF ~fhe.initialised THEN "initialise" ELSE "use"]
    /\ UNCHANGED <<fhe, keyGenCalls, issued>>

InitialiseEnter(t) ==
    /\ pc[t] = "initialise"
    /\ pc' = [pc EXCEPT ![t] = initialise_branch(fhe)]
    /\ UNCHANGED <<fhe, keyGenCalls, issued>>

ContextGen(t) ==
    /\ pc[t] = "contextGen"
    /\ fhe.keysMade < MaxFheKeys
    /\ fhe' = contextGen_keyGen(fhe)
    /\ keyGenCalls' = keyGenCalls + 1
    /\ pc' = [pc EXCEPT ![t] = "save_context"]
    /\ UNCHANGED issued

SaveContext(t) ==
    /\ pc[t] = "save_context"
    /\ fhe' = save_context(fhe)
    /\ pc' = [pc EXCEPT ![t] = "save_secret_key"]
    /\ UNCHANGED <<keyGenCalls, issued>>

SaveSecretKey(t) ==
    /\ pc[t] = "save_secret_key"
    /\ fhe' = save_secret_key(fhe)
    /\ pc' = [pc EXCEPT ![t] = "mark"]
    /\ UNCHANGED <<keyGenCalls, issued>>

LoadContext(t) ==
    /\ pc[t] = "load_context"
    /\ fhe' = load_context(fhe)
    /\ pc' = [pc EXCEPT ![t] = "load_secret_key"]
    /\ UNCHANGED <<keyGenCalls, issued>>

LoadSecretKey(t) ==
    /\ pc[t] = "load_secret_key"
    /\ fhe' = load_secret_key(fhe)
    /\ pc' = [pc EXCEPT ![t] = "mark"]
    /\ UNCHANGED <<keyGenCalls, issued>>

MarkInitialised(t) ==
    /\ pc[t] = "mark"
    /\ fhe' = mark_initialised(fhe)
    /\ pc' = [pc EXCEPT ![t] = "use"]
    /\ UNCHANGED <<keyGenCalls, issued>>

\* he.encrypt(values): a ciphertext under the key pair self._he holds now,
\* handed to the caller (who persists it).
EncryptUse(t) ==
    /\ pc[t] = "use"
    /\ issued' = issued \cup {fhe.heCtx}
    /\ pc' = [pc EXCEPT ![t] = "idle"]
    /\ UNCHANGED <<fhe, keyGenCalls>>

\* The process is stopped (at any point) and started again: a new, empty
\* _FHE_CONTEXT; the files stay as they are.
ProcessRestart ==
    /\ fhe' = [fhe EXCEPT !.heCtx = 0, !.heSec = 0, !.initialised = FALSE]
    /\ pc' = [t \in FheThreads |-> "idle"]
    /\ keyGenCalls' = 0
    /\ UNCHANGED issued

InitFHE ==
    /\ fhe = FheInit
    /\ pc = [t \in FheThreads |-> "idle"]
    /\ keyGenCalls = 0
    /\ issued = {}

-----------------------------------------------------------------------------
(***************************************************************************)
(* BiometricAuthService (services/auth_service.py).                        *)
(*                                                                         *)
(* Numbers are integers in a fixed unit.  A ciphertext is [key, vec]: the  *)
(* key pair it was encrypted under and the values it decrypts to under     *)
(* that pair's secret key.  CKKS is approximate: each decrypted value is   *)
(* the encrypted one plus a noise of at most NoiseBound, fixed when the    *)
(* ciphertext is made (decryption is deterministic).  The default          *)
(* tolerance (0.1) is DefaultTolerance units, above the noise.             *)
(* Token ids are os.urandom(18): a new id never repeats an earlier one.    *)
(***************************************************************************)
NoiseBound == 1
DefaultTolerance == 2
\* BiometricEnrollmentRequest.vector: Field(..., min_length=16), on the scale
\* of the model's vectors.
min_length == 2

TokenIds == {"tokA", "tokB"}
AnyTokenIds == TokenIds \cup {"nonexistent-token"}
Values == {0, 2}
VecLens == {1, 2}
Vectors == UNION {[1..n -> Values] : n \in VecLens}
PresentedVectors == Vectors \cup {<<>>}
Noises(n) == [1..n -> (0 - NoiseBound)..NoiseBound]
Tolerances == {0, 1, DefaultTolerance}

\* An encryption that is none: the values as they are, under no key.
he_encrypt_Plain(f, values, noise) == [key |-> 0, vec |-> values]

\* he.encrypt(values) with the noise this encryption carries.
he_encrypt(f, values, noise) ==
    [key |-> f.heCtx, vec |-> [i \in 1..Len(values) |-> values[i] + noise[i]]]

\* he.decrypt(ciphertext): the values, under the secret key of the pair the
\* ciphertext was made with; under any other key, unrelated numbers.
he_decrypt(f, ct) ==
    IF f.heSec = ct.key THEN ct.vec ELSE [i \in 1..Len(ct.vec) |-> 99]

\* FHEContext.decrypt_vector(ciphertext): the FHE state afterwards and the
\* values returned.
decrypt_vector(f, ct) ==
    LET f1 == he(f)
    IN  [fhe |-> f1, out |-> he_decrypt(f1, ct)]

\* Ciphertexts a caller may hold from elsewhere (made under key pair 1).
HeldCiphertexts == {[key |-> 1, vec |-> <<0>>], [key |-> 1, vec |-> <<2, 0>>]}

\* PyCtxt.to_bytes() and PyCtxt(bytestring=...): one byte for the key pair,
\* one per value (offset 128).
to_bytes(ct) == <<ct.key>> \o [i \in 1..Len(ct.vec) |-> ct.vec[i] + 128]
from_bytes(bs) == [key |-> bs[1], vec |-> [i \in 1..(Len(bs) - 1) |-> bs[i + 1] - 128]]

\* bytes.hex() and bytes.fromhex(): two lower-case hex digits per byte.
HexDigit(d) == IF d < 10 THEN 48 + d ELSE 87 + d
HexValue(c) == IF c < 58 THEN c - 48 ELSE c - 87
bytes_hex(bs) ==
    [i \in 1..(2 * Len(bs)) |->
        IF i % 2 = 1 THEN HexDigit(bs[(i + 1) \div 2] \div 16)
        ELSE HexDigit(bs[i \div 2] % 16)]
bytes_fromhex(cs) ==
    [i \in 1..(Len(cs) \div 2) |-> 16 * HexValue(cs[2 * i - 1]) + HexValue(cs[2 * i])]

\* A record name that leaves the token id out.
record_name_Fixed(token_id) == << <<"biometric_", "token">> >>

\* f"biometric_{token_id}"
record_name(token_id) == << <<"biometric_", token_id>> >>

\* A verify without the "if not record" test.
falsy_Never(x) == FALSE

\* Python's truth test "not x".
falsy(x) ==
    CASE x.t = "none" -> TRUE
      [] x.t \in {"bool", "int"} -> x.n = 0
      [] x.t \in {"str", "bytes"} -> x.s = <<>>
      [] OTHER -> x.items = <<>>

\* record["ciphertext"]
ciphertext_of(record) ==
    (CHOOSE e \in {record.items[i] : i \in 1..Len(record.items)} :
        e.k = PyStr(S_ciphertext)).v.s

\* A verify without the length test: zip() stops at the shorter vector.
length_mismatch_Unchecked(baseline, presented) == FALSE

\* len(baseline_vector) != len(presented_vector)
length_mismatch(baseline, presented) == Len(baseline) # Len(presented)

AbsDiff(a, b) == IF a >= b THEN a - b ELSE b - a

RECURSIVE SumAbs(_, _)
SumAbs(baseline, presented) ==
    IF baseline = <<>> \/ presented = <<>> THEN 0
    ELSE AbsDiff(Head(baseline), Head(presented)) + SumAbs(Tail(baseline), Tail(presented))

\* sum(abs(base - presented) for ... in zip(...)) / len(baseline_vector), kept
\* as the fraction num/den.
distance(baseline, presented) ==
    [num |-> SumAbs(baseline, presented), den |-> Len(baseline)]

\* The comparison written with "<".
within_tolerance_Strict(d, tolerance) == d.num < tolerance * d.den

\* distance <= tolerance
within_tolerance(d, tolerance) == d.num <= tolerance * d.den

AuthNoOp ==
    [op |-> "none", token |-> "", vector |-> <<>>, tol |-> 0, kind |-> "none",
     val |-> FALSE, err |-> "", ct |-> <<>>]

\* BiometricAuthService.enrol(biometric_vector), with the id os.urandom gives
\* and the noise of this encryption: the FHE state and the files afterwards,
\* and the outcome.
enrol(f, fs, key, token_id, vector, noise) ==
    LET f1  == he(f)
        ct  == he_encrypt(f1, vector, noise)
        hex == bytes_hex(to_bytes(ct))
        w   == write(fs, key, record_name(token_id),
                     PyDict(<<Entry(PyStr(S_ciphertext), PyStr(hex))>>))
    IN  [fhe |-> f1, files |-> w.files,
         out |-> IF w.out.kind = "raise"
                 THEN [AuthNoOp EXCEPT !.op = "enrol", !.vector = vector,
                                       !.kind = "raise", !.err = w.out.err]
                 ELSE [AuthNoOp EXCEPT !.op = "enrol", !.vector = vector,
                                       !.token = token_id, !.kind = "return",
                                       !.ct = hex]]

\* BiometricAuthService.verify(token_id, presented_vector, tolerance): the FHE
\* state afterwards and the outcome.
verify(f, fs, key, token_id, presented, tolerance) ==
    LET record == read(fs, key, record_name(token_id))
        call   == [AuthNoOp EXCEPT !.op = "verify", !.token = token_id,
                                   !.vector = presented, !.tol = tolerance]
    IN  IF record.kind = "raise"
        THEN [fhe |-> f, out |-> [call EXCEPT !.kind = "raise", !.err = record.err]]
        ELSE IF falsy(record.val)
        THEN [fhe |-> f, out |-> [call EXCEPT !.kind = "return", !.val = FALSE]]
        ELSE IF record.val.t # "dict"
        THEN [fhe |-> f, out |-> [call EXCEPT !.kind = "raise", !.err = "TypeError"]]
        ELSE
        LET ct       == from_bytes(bytes_fromhex(ciphertext_of(record.val)))
            f1       == he(f)
            baseline == he_decrypt(f1, ct)
        IN  IF length_mismatch(baseline, presented)
            THEN [fhe |-> f1, out |-> [call EXCEPT !.kind = "return", !.val = FALSE]]
            ELSE IF Len(baseline) = 0
            THEN [fhe |-> f1,
                  out |-> [call EXCEPT !.kind = "raise", !.err = "ZeroDivisionError"]]
            ELSE [fhe |-> f1,
                  out |-> [call EXCEPT !.kind = "return",
                              !.val = within_tolerance(distance(baseline, presented),
                                                       tolerance)]]

\* The process starts: the module-level _STORE = SecureStore() and
\* _FHE_CONTEXT = FHEContext() are constructed.
AuthProcessStart ==
    /\ NewStore
    /\ fhe' = [fhe EXCEPT !.heCtx = 0, !.heSec = 0, !.initialised = FALSE]
    /\ authLast' = AuthNoOp
    /\ UNCHANGED <<pc, keyGenCalls, issued, enrolled>>

Enrol(token_id, vector, noise) ==
    /\ storeKey # 0
    /\ authLast = AuthNoOp
    /\ token_id \notin DOMAIN enrolled
    /\ LET r == enrol(fhe, files, storeKey, token_id, vector, noise)
       IN  /\ fhe' = r.fhe
           /\ files' = r.files
           /\ authLast' = r.out
           /\ enrolled' = IF r.out.kind = "return"
                          THEN [t \in DOMAIN enrolled \cup {token_id} |->
                                   IF t = token_id THEN vector ELSE enrolled[t]]
                          ELSE enrolled
    /\ storeLast' = NoOp
    /\ UNCHANGED <<masterKeyFile, masterKeysMade, storeKey, written, ctorPc, ctorKey>>
    /\ UNCHANGED <<pc, keyGenCalls, issued>>

Verify(token_id, presented, tolerance) ==
    /\ storeKey # 0
    /\ authLast = AuthNoOp
    /\ LET r == verify(fhe, files, storeKey, token_id, presented, tolerance)
       IN  /\ fhe' = r.fhe
           /\ authLast' = r.out
    /\ storeLast' = NoOp
    /\ UNCHANGED <<masterKeyFile, masterKeysMade, storeKey, files, written, ctorPc, ctorKey>>
    /\ UNCHANGED <<pc, keyGenCalls, issued, enrolled>>

\* get_fhe().decrypt_vector(ciphertext), called on the process's context.
DecryptVector(ct) ==
    /\ storeKey # 0
    /\ authLast = AuthNoOp
    /\ LET r == decrypt_vector(fhe, ct)
       IN  /\ fhe' = r.fhe
           /\ authLast' = [AuthNoOp EXCEPT !.op = "decrypt_vector", !.kind = "return",
                                           !.vector = r.out]
    /\ storeLast' = NoOp
    /\ UNCHANGED <<masterKeyFile, masterKeysMade, storeKey, files, written, ctorPc, ctorKey>>
    /\ UNCHANGED <<pc, keyGenCalls, issued, enrolled>>

\* The caller takes the outcome of its call; the service waits for the next.
AuthReturn ==
    /\ authLast # AuthNoOp
    /\ authLast' = AuthNoOp
    /\ UNCHANGED <<storeVars, fheVars, enrolled>>

InitAuth ==
    /\ enrolled = <<>>
    /\ authLast = AuthNoOp

-----------------------------------------------------------------------------
(***************************************************************************)
(* POST /triage (api/routes.py run_triage, services/triage_service.py).    *)
(*                                                                         *)
(* An Optional field of the request is [some, val]: some = FALSE is None.  *)
(* The triage service is the one TriageService of the process, with its    *)
(* own ComplianceTrail (the instance "triage").                            *)
(***************************************************************************)
None(default) == [some |-> FALSE, val |-> default]
Some(v) == [some |-> TRUE, val |-> v]

\* The characters of a token id.
token_text(token_id) ==
    CASE token_id = "tokA" -> <<116, 111, 107, 65>>
      [] token_id = "tokB" -> <<116, 111, 107, 66>>
      [] token_id = "nonexistent-token" -> <<110, 111, 110, 101, 120, 105, 115, 116, 101, 110, 116, 45, 116, 111, 107, 101, 110>>
      [] OTHER -> <<>>

URGENCY_MAP ==
    [index \in 0..2 |->
        CASE index = 0 -> <<76, 111, 119, 32, 85, 114, 103, 101, 110, 99, 121>>
          [] index = 1 -> <<77, 101, 100, 105, 117, 109, 32, 85, 114, 103, 101, 110, 99, 121>>
          [] index = 2 -> <<72, 105, 103, 104, 32, 85, 114, 103, 101, 110, 99, 121>>]

\* URGENCY_MAP.get(index, "Medium Urgency")
urgency_of(index) == IF index \in DOMAIN URGENCY_MAP THEN URGENCY_MAP[index] ELSE URGENCY_MAP[1]

\* What the predictor can return as prediction_index.
PredictionIndexes == {2, 5}

\* float(prediction["probabilities"][index]), in hundredths.
confidence_of(index) == 50 + index

\* audit_payload of TriageService.run_triage.
audit_payload(index, biometric_token) ==
    PyDict(<<Entry(PyStr(S_event), PyStr(<<116, 114, 105, 97, 103, 101, 95, 99, 111, 109, 112, 108, 101, 116, 101, 100>>)),
             Entry(PyStr(<<117, 114, 103, 101, 110, 99, 121>>), PyStr(urgency_of(index))),
             Entry(PyStr(<<99, 111, 110, 102, 105, 100, 101, 110, 99, 101>>), PyInt(confidence_of(index))),
             Entry(PyStr(<<98, 105, 111, 109, 101, 116, 114, 105, 99, 95, 114, 101, 102, 101, 114, 101, 110, 99, 101>>),
                   IF biometric_token.some THEN PyStr(token_text(biometric_token.val))
                   ELSE PyNone)>>)

\* A route without the "if request.biometric_vector:" block.
vector_presented_Never(biometric_vector) == FALSE

\* "if request.biometric_vector:" -- None and [] are both false.
vector_presented(biometric_vector) == biometric_vector.some /\ biometric_vector.val # <<>>

\* "if not request.biometric_token:" -- None and "" are both false.
token_missing(biometric_token) == ~biometric_token.some \/ biometric_token.val = ""

TriageNoOp ==
    [op |-> "none", token |-> None(""), vector |-> None(<<>>), status |-> 0,
     verify_called |-> FALSE, verified |-> FALSE, predicted |-> FALSE, logged |-> FALSE]

\* The route handler run_triage for one request: the FHE state and the ledger
\* afterwards, the signature log_event returned, and what the request did.
run_triage(f, fs, key, lines, trail_key, biometric_token, biometric_vector, index, ts) ==
    LET call == [TriageNoOp EXCEPT !.op = "triage", !.token = biometric_token,
                                   !.vector = biometric_vector]
        v    == verify(f, fs, key, biometric_token.val, biometric_vector.val,
                       DefaultTolerance)
        e    == log_event(lines, trail_key, ts, audit_payload(index, biometric_token))
    IN  IF vector_presented(biometric_vector) /\ token_missing(biometric_token)
        THEN [fhe |-> f, ledger |-> lines, sig |-> NoSig,
              out |-> [call EXCEPT !.status = 400]]
        ELSE IF vector_presented(biometric_vector) /\ v.out.kind = "raise"
        THEN [fhe |-> v.fhe, ledger |-> lines, sig |-> NoSig,
              out |-> [call EXCEPT !.status = 500, !.verify_called = TRUE]]
        ELSE IF vector_presented(biometric_vector) /\ ~v.out.val
        THEN [fhe |-> v.fhe, ledger |-> lines, sig |-> NoSig,
              out |-> [call EXCEPT !.status = 401, !.verify_called = TRUE]]
        ELSE
        LET seen == [call EXCEPT !.verify_called = vector_presented(biometric_vector),
                                 !.verified = vector_presented(biometric_vector),
                                 !.predicted = TRUE]
        IN  [fhe |-> IF vector_presented(biometric_vector) THEN v.fhe ELSE f,
             ledger |-> e.ledger, sig |-> e.out.sig,
             out |-> IF e.out.kind = "raise" THEN [seen EXCEPT !.status = 500]
                     ELSE [seen EXCEPT !.status = 200, !.logged = TRUE]]

RequestTokens == {None(""), Some(""), Some("tokA"), Some("nonexistent-token")}
RequestVectors == {None(<<>>), Some(<<>>)} \cup {Some(v) : v \in [1..2 -> Values]}

RunTriage(biometric_token, biometric_vector, index, ts) ==
    /\ storeKey # 0
    /\ trailPc["triage"] = "ready"
    /\ authLast = AuthNoOp
    /\ triageLast = TriageNoOp
    /\ Len(ledger) < MaxLedger
    /\ LET r == run_triage(fhe, files, storeKey, ledger, trailKey["triage"],
                           biometric_token, biometric_vector, index, ts)
       IN  /\ fhe' = r.fhe
           /\ ledger' = r.ledger
           /\ logged' = IF r.out.logged THEN Append(logged, r.sig) ELSE logged
           /\ triageLast' = r.out
    /\ UNCHANGED <<storeVars, authVars, pc, keyGenCalls, issued, reviewVars, limitVars>>
    /\ UNCHANGED <<signKeyFile, signKeysMade, trailKey, trailPc, ledgerLast, auditLast,
                   logPc, logLine, logPos>>

\* The response (or the error response) goes out.
TriageReturn ==
    /\ triageLast # TriageNoOp
    /\ triageLast' = TriageNoOp
    /\ UNCHANGED <<storeVars, ledgerVars, fheVars, authVars, reviewVars, limitVars>>

InitTriage == triageLast = TriageNoOp

-----------------------------------------------------------------------------
(***************************************************************************)
(* ReviewService (services/review_service.py).                             *)
(*                                                                         *)
(* The review queue file is a sequence of lines, one case each.  A line    *)
(* keeps the members of the JSON object _append_to_queue / _save_queue     *)
(* write that the service reads back and acts on: case_id, status,         *)
(* priority, created_at, reviewer_id as their strings, triage_result,      *)
(* predicted_urgency and confidence as JSON text, audit_trail as the list  *)
(* of decisions recorded.  Strings of the service are TLA+ strings; chars  *)
(* gives their characters where they enter a compliance event.             *)
(***************************************************************************)
MaxCases == 2
MaxReviews == 2

chars(s) ==
    CASE s = "review_case_submitted" -> <<114, 101, 118, 105, 101, 119, 95, 99, 97, 115, 101, 95, 115, 117, 98, 109, 105, 116, 116, 101, 100>>
      [] s = "clinician_review_submitted" -> <<99, 108, 105, 110, 105, 99, 105, 97, 110, 95, 114, 101, 118, 105, 101, 119, 95, 115, 117, 98, 109, 105, 116, 116, 101, 100>>
      [] s = "case_id" -> <<99, 97, 115, 101, 95, 105, 100>>
      [] s = "clinician_id" -> <<99, 108, 105, 110, 105, 99, 105, 97, 110, 95, 105, 100>>
      [] s = "decision" -> <<100, 101, 99, 105, 115, 105, 111, 110>>
      [] s = "override" -> <<111, 118, 101, 114, 114, 105, 100, 101>>
      [] s = "priority" -> <<112, 114, 105, 111, 114, 105, 116, 121>>
      [] s = "predicted_urgency" -> <<112, 114, 101, 100, 105, 99, 116, 101, 100, 95, 117, 114, 103, 101, 110, 99, 121>>
      [] s = "confidence" -> <<99, 111, 110, 102, 105, 100, 101, 110, 99, 101>>
      [] s = "urgency" -> <<117, 114, 103, 101, 110, 99, 121>>
      [] s = "status" -> <<115, 116, 97, 116, 117, 115>>
      [] s = "created_at" -> <<99, 114, 101, 97, 116, 101, 100, 95, 97, 116>>
      [] s = "reviewer_id" -> <<114, 101, 118, 105, 101, 119, 101, 114, 95, 105, 100>>
      [] s = "triage_result" -> <<116, 114, 105, 97, 103, 101, 95, 114, 101, 115, 117, 108, 116>>
      [] s = "audit_trail" -> <<97, 117, 100, 105, 116, 95, 116, 114, 97, 105, 108>>
      [] s = "Unknown" -> <<85, 110, 107, 110, 111, 119, 110>>
      [] s = "pending" -> <<112, 101, 110, 100, 105, 110, 103>>
      [] s = "in_review" -> <<105, 110, 95, 114, 101, 118, 105, 101, 119>>
      [] s = "approved" -> <<97, 112, 112, 114, 111, 118, 101, 100>>
      [] s = "rejected" -> <<114, 101, 106, 101, 99, 116, 101, 100>>
      [] s = "escalated" -> <<101, 115, 99, 97, 108, 97, 116, 101, 100>>
      [] s = "Approved" -> <<65, 112, 112, 114, 111, 118, 101, 100>>
      [] s = "bogus" -> <<98, 111, 103, 117, 115>>
      [] s = "low" -> <<108, 111, 119>>
      [] s = "medium" -> <<109, 101, 100, 105, 117, 109>>
      [] s = "high" -> <<104, 105, 103, 104>>
      [] s = "critical" -> <<99, 114, 105, 116, 105, 99, 97, 108>>
      [] s = "dr1" -> <<100, 114, 49>>
      [] s = "case-1" -> <<99, 97, 115, 101, 45, 49>>
      [] s = "case-2" -> <<99, 97, 115, 101, 45, 50>>
      [] s = "case-3" -> <<99, 97, 115, 101, 45, 51>>
      [] s = "case-9" -> <<99, 97, 115, 101, 45, 57>>
      [] OTHER -> <<>>

\* class ReviewStatus / class ReviewPriority: the values.
ReviewStatus == {"pending", "in_review", "approved", "rejected", "escalated"}
ReviewPriority == {"low", "medium", "high", "critical"}

\* str(uuid4()) of the n-th case.
case_id_of(n) == CASE n = 1 -> "case-1" [] n = 2 -> "case-2" [] OTHER -> "case-3"

\* dict.get(key, default) on a Python dict.
dict_get(d, key, default) ==
    IF \E j \in DOMAIN d.items : d.items[j].k = PyStr(key)
    THEN d.items[CHOOSE j \in DOMAIN d.items : d.items[j].k = PyStr(key)].v
    ELSE default

\* ReviewService._determine_priority, confidence in hundredths.
determine_priority(urgency, confidence) ==
    IF urgency = PyStr(URGENCY_MAP[2])
    THEN (IF confidence.n > 70 THEN "high" ELSE "critical")
    ELSE IF urgency = PyStr(URGENCY_MAP[1])
    THEN (IF confidence.n > 60 THEN "medium" ELSE "high")
    ELSE (IF confidence.n > 60 THEN "low" ELSE "medium")

\* The triage results handed to submit_for_review: a high-urgency one, a
\* low-urgency one, one that json cannot write.
TriageResults ==
    { PyDict(<<Entry(PyStr(chars("urgency")), PyStr(URGENCY_MAP[2])),
               Entry(PyStr(chars("confidence")), PyInt(90))>>),
      PyDict(<<Entry(PyStr(chars("urgency")), PyStr(URGENCY_MAP[0])),
               Entry(PyStr(chars("confidence")), PyInt(90))>>),
      PyDict(<<Entry(PyStr(chars("urgency")), PyStr(URGENCY_MAP[2])),
               Entry(PyStr(chars("confidence")), PyInt(90)),
               Entry(PyStr(S_k), PyBytes(S_x))>>) }

\* ReviewCase(...) as submit_for_review builds it.
new_case(case_id, triage_result, now) ==
    [case_id |-> case_id,
     triage_result |-> triage_result,
     predicted_urgency |-> dict_get(triage_result, chars("urgency"), PyStr(chars("Unknown"))),
     confidence |-> dict_get(triage_result, chars("confidence"), PyInt(0)),
     status |-> "pending",
     priority |-> determine_priority(
                     dict_get(triage_result, chars("urgency"), PyStr(URGENCY_MAP[1])),
                     dict_get(triage_result, chars("confidence"), PyInt(50))),
     created_at |-> now,
     reviewer_id |-> "",
     audit_trail |-> <<>>]

\* json.dumps(case_dict) of _append_to_queue / _save_queue: the line, or
\* JTypeError when a member cannot be written.
case_line(case) ==
    LET tr == json_dumps(case.triage_result, FALSE)
        pu == json_dumps(case.predicted_urgency, FALSE)
        cf == json_dumps(case.confidence, FALSE)
    IN  IF JTypeError \in {tr, pu, cf} THEN JTypeError
        ELSE [case EXCEPT !.triage_result = tr, !.predicted_urgency = pu,
                          !.confidence = cf]

\* ReviewCase(...) of _load_queue for one line.
case_of(line) ==
    [line EXCEPT !.triage_result = json_loads(line.triage_result),
                 !.predicted_urgency = json_loads(line.predicted_urgency),
                 !.confidence = json_loads(line.confidence)]

\* ReviewService._load_queue
load_queue(queue) == [i \in DOMAIN queue |-> case_of(queue[i])]

\* ReviewService._save_queue: the file is rewritten from the cases given.
save_queue(cases) == [i \in DOMAIN cases |-> case_line(cases[i])]

\* ReviewService._append_to_queue, the line already serialized.
append_to_queue(queue, line) == Append(queue, line)

\* log_event on a ledger file that may not be writable: json.dumps and the
\* signature come first, then open("a") raises OSError.
log_event_on(lines, key, ts, payload, writable) ==
    LET e == log_event(lines, key, ts, payload)
    IN  IF e.out.kind = "return" /\ ~writable
        THEN [ledger |-> lines, out |-> [e.out EXCEPT !.kind = "raise", !.sig = NoSig,
                                                      !.err = "OSError"]]
        ELSE e

ReviewNoOp ==
    [op |-> "none", kind |-> "none", case_id |-> "", clinician_id |-> "", decision |-> "",
     err |-> "", val |-> <<>>, priority_filter |-> "", limit |-> 0]

\* ReviewService.submit_for_review(triage_result, symptoms_hash) for the n-th
\* case, at instant now: the queue and the ledger afterwards, and the outcome.
submit_for_review(queue, lines, key, n, triage_result, now, writable) ==
    LET case == new_case(case_id_of(n), triage_result, now)
        line == case_line(case)
        call == [ReviewNoOp EXCEPT !.op = "submit_for_review"]
        e    == log_event_on(lines, key, 1,
                    PyDict(<<Entry(PyStr(S_event), PyStr(chars("review_case_submitted"))),
                             Entry(PyStr(chars("case_id")), PyStr(chars(case.case_id))),
                             Entry(PyStr(chars("priority")), PyStr(chars(case.priority))),
                             Entry(PyStr(chars("predicted_urgency")), case.predicted_urgency),
                             Entry(PyStr(chars("confidence")), case.confidence)>>),
                    writable)
    IN  IF line = JTypeError
        THEN [queue |-> queue, ledger |-> lines, sig |-> NoSig,
              out |-> [call EXCEPT !.kind = "raise", !.err = "TypeError"]]
        ELSE IF e.out.kind = "raise"
        THEN [queue |-> append_to_queue(queue, line), ledger |-> lines, sig |-> NoSig,
              out |-> [call EXCEPT !.kind = "raise", !.err = e.out.err]]
        ELSE [queue |-> append_to_queue(queue, line), ledger |-> e.ledger, sig |-> e.out.sig,
              out |-> [call EXCEPT !.kind = "return", !.case_id = case.case_id]]

\* The sort key of get_pending_cases: (priority_order.get(priority, 999), created_at).
priority_order(priority) ==
    CASE priority = "critical" -> 0
      [] priority = "high" -> 1
      [] priority = "medium" -> 2
      [] priority = "low" -> 3
      [] OTHER -> 999

case_before(a, b) ==
    \/ priority_order(a.priority) < priority_order(b.priority)
    \/ priority_order(a.priority) = priority_order(b.priority) /\ a.created_at < b.created_at

\* list.sort(key=...): stable, an element goes after those not greater.
RECURSIVE sort_cases(_)
sort_cases(cases) ==
    IF cases = <<>> THEN <<>>
    ELSE LET rest == sort_cases(SubSeq(cases, 1, Len(cases) - 1))
             c    == cases[Len(cases)]
             at   == Cardinality({j \in DOMAIN rest : ~case_before(c, rest[j])})
         IN  SubSeq(rest, 1, at) \o <<c>> \o SubSeq(rest, at + 1, Len(rest))

\* [c for c in cases if pred]
RECURSIVE select_cases(_, _, _)
select_cases(cases, statuses, priorities) ==
    IF cases = <<>> THEN <<>>
    ELSE LET rest == select_cases(Tail(cases), statuses, priorities)
         IN  IF Head(cases).status \in statuses /\ Head(cases).priority \in priorities
             THEN <<Head(cases)>> \o rest
             ELSE rest

\* c.status == ReviewStatus.PENDING or c.status == ReviewStatus.IN_REVIEW
pending_statuses == {"pending", "in_review"}

\* seq[:limit] for limit >= 0
take(seq, limit) == SubSeq(seq, 1, IF limit < Len(seq) THEN limit ELSE Len(seq))

\* ReviewService.get_pending_cases(clinician_id, priority_filter, limit):
\* the case ids of the result in order ("" for priority_filter is None).
get_pending_cases(queue, clinician_id, priority_filter, limit) ==
    LET call == [ReviewNoOp EXCEPT !.op = "get_pending_cases",
                                   !.priority_filter = priority_filter, !.limit = limit]
        capped  == IF limit < 100 THEN limit ELSE 100
        wanted  == IF priority_filter = "" THEN ReviewPriority ELSE {priority_filter}
    IN  IF clinician_id = ""
        THEN [call EXCEPT !.kind = "raise", !.err = "ValueError"]
        ELSE CHOOSE out \in
                { [call EXCEPT !.kind = "return",
                               !.val = [i \in DOMAIN result |-> result[i].case_id]] :
                    result \in { take(sort_cases(pending), capped) :
                                    pending \in { select_cases(cases, pending_statuses, wanted) :
                                                    cases \in {load_queue(queue)} } } } :
                TRUE

\* str.lower() of a decision.
lower(decision) == IF decision = "Approved" THEN "approved" ELSE decision

\* Every status counted as a decision.
valid_decisions_All == ReviewStatus

\* [s.value for s in ReviewStatus if s != ReviewStatus.PENDING]
valid_decisions == ReviewStatus \ {"pending"}

\* The first case of the queue with the id, 0 if there is none.
find_case(cases, case_id) ==
    IF \E j \in DOMAIN cases : cases[j].case_id = case_id
    THEN CHOOSE j \in DOMAIN cases :
            /\ cases[j].case_id = case_id
            /\ \A i \in 1..(j - 1) : cases[i].case_id # case_id
    ELSE 0

\* submit_review up to "Save back to queue": the arguments are validated, the
\* queue is loaded and the case updated in memory.
review_update(queue, case_id, clinician_id, decision) ==
    CHOOSE updated \in
        { IF clinician_id = "" \/ case_id = "" \/ lower(decision) \notin valid_decisions
             \/ at = 0
          THEN [kind |-> "raise", cases |-> cases]
          ELSE [kind |-> "ok",
                cases |-> [cases EXCEPT ![at].status = lower(decision),
                                        ![at].reviewer_id = clinician_id,
                                        ![at].audit_trail = Append(@, decision)]] :
            cases \in {load_queue(queue)}, at \in {find_case(load_queue(queue), case_id)} } :
        TRUE

\* The compliance event of submit_review (no override_urgency given).
review_event(case_id, clinician_id, decision) ==
    PyDict(<<Entry(PyStr(S_event), PyStr(chars("clinician_review_submitted"))),
             Entry(PyStr(chars("case_id")), PyStr(chars(case_id))),
             Entry(PyStr(chars("clinician_id")), PyStr(chars(clinician_id))),
             Entry(PyStr(chars("decision")), PyStr(chars(decision))),
             Entry(PyStr(chars("override")), PyBool(FALSE))>>)

\* ReviewService.submit_review(case_id, clinician_id, decision): the queue and
\* the ledger afterwards, and the outcome.
submit_review(queue, lines, key, case_id, clinician_id, decision, writable) ==
    LET call == [ReviewNoOp EXCEPT !.op = "submit_review", !.case_id = case_id,
                                   !.clinician_id = clinician_id, !.decision = decision]
        fail == [ReviewNoOp EXCEPT !.op = "submit_review", !.kind = "raise"]
    IN  CHOOSE done \in
            { IF u.kind = "raise"
              THEN [queue |-> queue, ledger |-> lines, sig |-> NoSig,
                    out |-> [fail EXCEPT !.err = "ValueError"]]
              ELSE IF e.out.kind = "raise"
              THEN [queue |-> save_queue(u.cases), ledger |-> lines, sig |-> NoSig,
                    out |-> [fail EXCEPT !.err = e.out.err]]
              ELSE [queue |-> save_queue(u.cases), ledger |-> e.ledger, sig |-> e.out.sig,
                    out |-> [call EXCEPT !.kind = "return"]] :
                u \in {review_update(queue, case_id, clinician_id, decision)},
                e \in {log_event_on(lines, key, 1,
                                    review_event(case_id, clinician_id, decision),
                                    writable)} } :
            TRUE

ReviewThreads == {"v1", "v2"}

\* What a thread inside submit_review holds between its steps.
NoReview == [cases |-> <<>>, case_id |-> "", clinician_id |-> "", decision |-> ""]

CaseIds == {"", "case-1", "case-2", "case-9"}
ClinicianIds == {"", "dr1"}
Decisions == {"Approved", "in_review", "pending"}

SubmitForReview(triage_result, writable) ==
    /\ trailPc["review"] = "ready"
    /\ reviewLast = ReviewNoOp
    /\ casesIssued < MaxCases
    /\ LET r == submit_for_review(reviewQueue, ledger, trailKey["review"], casesIssued + 1,
                                  triage_result, casesIssued + 1, writable)
       IN  /\ reviewQueue' = r.queue
           /\ ledger' = r.ledger
           /\ logged' = IF r.out.kind = "return" THEN Append(logged, r.sig) ELSE logged
           /\ accepted' = IF r.out.kind = "return" THEN accepted \cup {r.out.case_id}
                          ELSE accepted
           /\ reviewLast' = r.out
    /\ casesIssued' = casesIssued + 1
    /\ UNCHANGED <<rvPc, rvCases, reviewsMade>>
    /\ UNCHANGED <<signKeyFile, signKeysMade, trailKey, trailPc, ledgerLast, auditLast,
                   logPc, logLine, logPos>>

GetPendingCases(clinician_id, priority_filter, limit) ==
    /\ reviewLast = ReviewNoOp
    /\ reviewLast' = get_pending_cases(reviewQueue, clinician_id, priority_filter, limit)
    /\ UNCHANGED <<reviewQueue, casesIssued, accepted, rvPc, rvCases, reviewsMade, ledgerVars>>

SubmitReview(case_id, clinician_id, decision, writable) ==
    /\ trailPc["review"] = "ready"
    /\ reviewLast = ReviewNoOp
    /\ reviewsMade < MaxReviews
    /\ \E r \in {submit_review(reviewQueue, ledger, trailKey["review"], case_id,
                                clinician_id, decision, writable)} :
           /\ reviewQueue' = r.queue
           /\ ledger' = r.ledger
           /\ logged' = IF r.out.kind = "return" THEN Append(logged, r.sig) ELSE logged
           /\ reviewLast' = r.out
           /\ reviewsMade' = IF r.out.err = "ValueError" THEN reviewsMade
                             ELSE reviewsMade + 1
    /\ UNCHANGED <<casesIssued, accepted, rvPc, rvCases>>
    /\ UNCHANGED <<signKeyFile, signKeysMade, trailKey, trailPc, ledgerLast, auditLast,
                   logPc, logLine, logPos>>

\* The caller takes the outcome of its call.
ReviewReturn ==
    /\ reviewLast # ReviewNoOp
    /\ reviewLast' = ReviewNoOp
    /\ UNCHANGED <<reviewQueue, casesIssued, accepted, rvPc, rvCases, reviewsMade, ledgerVars>>

\* ---- submit_review calls in threads of the process -------------------------
\* The route handlers are plain functions and run in the server's thread pool
\* on the one ReviewService of the process; submit_review goes through its
\* load, its save and its compliance event one at a time.

\* clinician_id, case_id and decision are validated, the queue is loaded and
\* the case updated in memory.
ReviewLoad(t, case_id, clinician_id, decision) ==
    /\ trailPc["review"] = "ready"
    /\ rvPc[t] = "idle"
    /\ reviewLast = ReviewNoOp
    /\ reviewsMade < MaxReviews
    /\ \E u \in {review_update(reviewQueue, case_id, clinician_id, decision)} :
           /\ u.kind = "ok"
           /\ rvCases' = [rvCases EXCEPT ![t] =
                             [cases |-> u.cases, case_id |-> case_id,
                              clinician_id |-> clinician_id, decision |-> decision]]
    /\ rvPc' = [rvPc EXCEPT ![t] = "save"]
    /\ reviewsMade' = reviewsMade + 1
    /\ UNCHANGED <<reviewQueue, casesIssued, accepted, reviewLast, ledgerVars>>

\* self._save_queue(cases)
ReviewSave(t) ==
    /\ rvPc[t] = "save"
    /\ reviewQueue' = save_queue(rvCases[t].cases)
    /\ rvPc' = [rvPc EXCEPT ![t] = "log"]
    /\ UNCHANGED <<casesIssued, accepted, reviewLast, rvCases, reviewsMade, ledgerVars>>

\* self._compliance.log_event(...); return True
ReviewLog(t) ==
    /\ rvPc[t] = "log"
    /\ reviewLast = ReviewNoOp
    /\ LET e == log_event(ledger, trailKey["review"], 1,
                          review_event(rvCases[t].case_id, rvCases[t].clinician_id,
                                       rvCases[t].decision))
       IN  /\ ledger' = e.ledger
           /\ logged' = Append(logged, e.out.sig)
    /\ reviewLast' = [ReviewNoOp EXCEPT !.op = "submit_review", !.kind = "return",
                                        !.case_id = rvCases[t].case_id,
                                        !.clinician_id = rvCases[t].clinician_id,
                                        !.decision = rvCases[t].decision]
    /\ rvPc' = [rvPc EXCEPT ![t] = "idle"]
    /\ rvCases' = [rvCases EXCEPT ![t] = NoReview]
    /\ UNCHANGED <<reviewQueue, casesIssued, accepted, reviewsMade>>
    /\ UNCHANGED <<signKeyFile, signKeysMade, trailKey, trailPc, ledgerLast, auditLast,
                   logPc, logLine, logPos>>

InitReview ==
    /\ reviewQueue = <<>>
    /\ casesIssued = 0
    /\ reviewsMade = 0
    /\ accepted = {}
    /\ reviewLast = ReviewNoOp
    /\ rvPc = [t \in ReviewThreads |-> "idle"]
    /\ rvCases = [t \in ReviewThreads |-> NoReview]

-----------------------------------------------------------------------------
(***************************************************************************)
(* RateLimitMiddleware (middleware/rate_limit.py).                         *)
(*                                                                         *)
(* time.time() is counted in whole seconds and tokens in sixtieths of a    *)
(* token, so that time_passed * requests_per_minute / 60.0 is exact: one   *)
(* token is TokenUnit.  The clock does not go backwards.                   *)
(***************************************************************************)
MaxRequests == 4

requests_per_minute == 30
burst_size == 2
TokenUnit == 60
CleanupInterval == 3600

ClientIps == {"10.0.0.1", "10.0.0.2"}
Endpoints == {"POST:/triage", "GET:/health"}

\* The seconds that pass between two requests.
ClockSteps == {0, 1, 3, CleanupInterval + 1}

\* A refill that is not capped at the burst size.
refill_Uncapped(tokens, time_passed) == tokens + time_passed * requests_per_minute

\* tokens = min(self.burst_size, tokens + time_passed * self.rate_per_second)
refill(tokens, time_passed) ==
    IF tokens + time_passed * requests_per_minute > burst_size * TokenUnit
    THEN burst_size * TokenUnit
    ELSE tokens + time_passed * requests_per_minute

\* The bucket _check_rate_limit works on: the one stored, or a new full one.
bucket_of(bs, client_ip, endpoint, current_time) ==
    IF <<client_ip, endpoint>> \in DOMAIN bs THEN bs[<<client_ip, endpoint>>]
    ELSE [tokens |-> burst_size * TokenUnit, last_update |-> current_time]

\* RateLimitMiddleware._check_rate_limit(client_ip, endpoint) at current_time:
\* the buckets afterwards and the answer.
check_rate_limit(bs, client_ip, endpoint, current_time) ==
    LET b       == bucket_of(bs, client_ip, endpoint, current_time)
        tokens  == refill(b.tokens, current_time - b.last_update)
        allowed == tokens >= TokenUnit
        left    == IF allowed THEN tokens - TokenUnit ELSE tokens
    IN  [buckets |-> [key \in DOMAIN bs \cup {<<client_ip, endpoint>>} |->
                         IF key = <<client_ip, endpoint>>
                         THEN [tokens |-> left, last_update |-> current_time]
                         ELSE bs[key]],
         out |-> [op |-> "check", client_ip |-> client_ip, endpoint |-> endpoint,
                  refilled |-> tokens, allowed |-> allowed]]

\* RateLimitMiddleware._cleanup_old_entries: buckets idle for over an hour go.
cleanup_old_entries(bs, current_time) ==
    [key \in {k \in DOMAIN bs : ~(current_time - bs[k].last_update > CleanupInterval)} |->
        bs[key]]

LimitNoOp == [op |-> "none", client_ip |-> "", endpoint |-> "", refilled |-> 0,
              allowed |-> FALSE]

\* dispatch up to "await call_next(request)": a request arrives time_passed
\* seconds after the one before and is checked.
CheckRateLimit(client_ip, endpoint, time_passed) ==
    /\ requestsSeen < MaxRequests
    /\ clock' = clock + time_passed
    /\ requestsSeen' = requestsSeen + 1
    /\ LET r == check_rate_limit(buckets, client_ip, endpoint, clock + time_passed)
       IN  /\ buckets' = r.buckets
           /\ limitLast' = r.out
    /\ UNCHANGED last_cleanup

\* dispatch after call_next, for a request that was let through: the periodic
\* cleanup, when over an hour has passed since the last one.
CleanupOldEntries ==
    /\ limitLast.op = "check"
    /\ limitLast.allowed
    /\ clock - last_cleanup > CleanupInterval
    /\ buckets' = cleanup_old_entries(buckets, clock)
    /\ last_cleanup' = clock
    /\ limitLast' = [LimitNoOp EXCEPT !.op = "cleanup"]
    /\ UNCHANGED <<clock, requestsSeen>>

InitLimit ==
    /\ buckets = << >>
    /\ clock = 0
    /\ last_cleanup = 0
    /\ requestsSeen = 0
    /\ limitLast = LimitNoOp

\* ==== specifications =======================================================
vars == <<storeVars, ledgerVars, fheVars, authVars, appVars>>

Init == InitStore /\ InitLedger /\ InitFHE /\ InitAuth /\ InitTriage
           /\ InitReview /\ InitLimit

NextStore ==
    \/ NewStore /\ UNCHANGED <<ledgerVars, fheVars, authVars, appVars>>
    \/ \E name \in Names, payload \in StorePayloads :
          Write(name, payload) /\ UNCHANGED <<ledgerVars, fheVars, authVars, appVars>>
    \/ \E name \in Names : Read(name) /\ UNCHANGED <<ledgerVars, fheVars, authVars, appVars>>
    \/ \E name \in Names : Tamper(path_for(name)) /\ UNCHANGED <<ledgerVars, fheVars, authVars, appVars>>

NextLedger ==
    \/ \E inst \in Trails : NewTrail(inst) /\ UNCHANGED <<storeVars, fheVars, authVars, appVars>>
    \/ \E inst \in Trails, ts \in Timestamps, payload \in LedgerPayloads :
          LogEvent(inst, ts, payload) /\ UNCHANGED <<storeVars, fheVars, authVars, appVars>>
    \/ \E i \in DOMAIN ledger, inst \in Trails, payload_text \in AlteredPayloads :
          VerifyLedgerLine(i, inst, ledger[i].timestamp, payload_text)
             /\ UNCHANGED <<storeVars, fheVars, authVars, appVars>>
    \/ \E i \in DOMAIN ledger, inst \in Trails, ts_text \in AlteredTimestamps :
          VerifyLedgerLine(i, inst, ts_text, ledger[i].payload)
             /\ UNCHANGED <<storeVars, fheVars, authVars, appVars>>
    \/ AuditReturn /\ UNCHANGED <<storeVars, fheVars, authVars, appVars>>

NextFHE ==
    \/ \E t \in FheThreads : HeEnter(t) /\ UNCHANGED <<storeVars, ledgerVars, authVars, appVars>>
    \/ \E t \in FheThreads : InitialiseEnter(t) /\ UNCHANGED <<storeVars, ledgerVars, authVars, appVars>>
    \/ \E t \in FheThreads : ContextGen(t) /\ UNCHANGED <<storeVars, ledgerVars, authVars, appVars>>
    \/ \E t \in FheThreads : SaveContext(t) /\ UNCHANGED <<storeVars, ledgerVars, authVars, appVars>>
    \/ \E t \in FheThreads : SaveSecretKey(t) /\ UNCHANGED <<storeVars, ledgerVars, authVars, appVars>>
    \/ \E t \in FheThreads : LoadContext(t) /\ UNCHANGED <<storeVars, ledgerVars, authVars, appVars>>
    \/ \E t \in FheThreads : LoadSecretKey(t) /\ UNCHANGED <<storeVars, ledgerVars, authVars, appVars>>
    \/ \E t \in FheThreads : MarkInitialised(t) /\ UNCHANGED <<storeVars, ledgerVars, authVars, appVars>>
    \/ \E t \in FheThreads : EncryptUse(t) /\ UNCHANGED <<storeVars, ledgerVars, authVars, appVars>>
    \/ ProcessRestart /\ UNCHANGED <<storeVars, ledgerVars, authVars, appVars>>

NextAuth ==
    \/ AuthProcessStart /\ UNCHANGED <<ledgerVars, appVars>>
    \/ \E token_id \in TokenIds, vector \in Vectors :
          \E noise \in Noises(Len(vector)) :
             Enrol(token_id, vector, noise) /\ UNCHANGED <<ledgerVars, appVars>>
    \/ \E token_id \in AnyTokenIds, presented \in PresentedVectors,
          tolerance \in Tolerances :
             Verify(token_id, presented, tolerance) /\ UNCHANGED <<ledgerVars, appVars>>
    \/ \E ct \in HeldCiphertexts : DecryptVector(ct) /\ UNCHANGED <<ledgerVars, appVars>>
    \/ AuthReturn /\ UNCHANGED <<ledgerVars, appVars>>

\* The record every instance writes and reads in the race.
RacePayload == PyDict(<<Entry(PyStr(S_ciphertext), PyStr(S_x))>>)

NextStoreRace ==
    \/ \E c \in Ctors : CtorBegin(c) /\ UNCHANGED <<ledgerVars, fheVars, authVars, appVars>>
    \/ \E c \in Ctors : CtorKeyPathExists(c) /\ UNCHANGED <<ledgerVars, fheVars, authVars, appVars>>
    \/ \E c \in Ctors : CtorReadBytes(c) /\ UNCHANGED <<ledgerVars, fheVars, authVars, appVars>>
    \/ \E c \in Ctors : CtorGenerateKey(c) /\ UNCHANGED <<ledgerVars, fheVars, authVars, appVars>>
    \/ \E c \in Ctors : CtorWriteBytes(c) /\ UNCHANGED <<ledgerVars, fheVars, authVars, appVars>>
    \/ \E c \in Ctors, name \in Names :
          CtorWrite(c, name, RacePayload) /\ UNCHANGED <<ledgerVars, fheVars, authVars, appVars>>
    \/ \E c \in Ctors, name \in Names :
          CtorRead(c, name) /\ UNCHANGED <<ledgerVars, fheVars, authVars, appVars>>

NextLedgerThreads ==
    \/ \E inst \in Trails : NewTrail(inst) /\ UNCHANGED <<storeVars, fheVars, authVars, appVars>>
    \/ \E t \in LogThreads, inst \in Trails, ts \in Timestamps, payload \in LedgerPayloads :
          LogBuild(t, inst, ts, payload) /\ UNCHANGED <<storeVars, fheVars, authVars, appVars>>
    \/ \E t \in LogThreads : LogOpen(t) /\ UNCHANGED <<storeVars, fheVars, authVars, appVars>>
    \/ \E t \in LogThreads : LogWrite(t) /\ UNCHANGED <<storeVars, fheVars, authVars, appVars>>
    \/ \E t \in LogThreads : LogClose(t) /\ UNCHANGED <<storeVars, fheVars, authVars, appVars>>

\* The event every instance logs in the race.
TrailRacePayload == PyDict(<<Entry(PyStr(S_event), PyStr(S_x)), Entry(PyStr(S_n), PyInt(1))>>)

NextTrailRace ==
    \/ \E inst \in Trails : TrailBegin(inst) /\ UNCHANGED <<storeVars, fheVars, authVars, appVars>>
    \/ \E inst \in Trails : TrailKeyPathExists(inst) /\ UNCHANGED <<storeVars, fheVars, authVars, appVars>>
    \/ \E inst \in Trails : TrailReadBytes(inst) /\ UNCHANGED <<storeVars, fheVars, authVars, appVars>>
    \/ \E inst \in Trails : TrailGenerate(inst) /\ UNCHANGED <<storeVars, fheVars, authVars, appVars>>
    \/ \E inst \in Trails : TrailWriteBytes(inst) /\ UNCHANGED <<storeVars, fheVars, authVars, appVars>>
    \/ \E inst \in Trails, ts \in Timestamps :
          LogEvent(inst, ts, TrailRacePayload) /\ UNCHANGED <<storeVars, fheVars, authVars, appVars>>

\* The noise of the enrolments that precede the /triage requests.
TriageNoises == {[i \in 1..2 |-> 0], [i \in 1..2 |-> NoiseBound]}

NextTriage ==
    \/ AuthProcessStart /\ UNCHANGED <<ledgerVars, appVars>>
    \/ NewTrail("triage") /\ UNCHANGED <<storeVars, fheVars, authVars, appVars>>
    \/ \E noise \in TriageNoises :
          Enrol("tokA", <<2, 2>>, noise) /\ UNCHANGED <<ledgerVars, appVars>>
    \/ AuthReturn /\ UNCHANGED <<ledgerVars, appVars>>
    \/ \E biometric_token \in RequestTokens, biometric_vector \in RequestVectors,
          index \in PredictionIndexes :
             RunTriage(biometric_token, biometric_vector, index, 1)
    \/ TriageReturn

NextReview ==
    \/ NewTrail("review") /\ UNCHANGED <<storeVars, fheVars, authVars, appVars>>
    \/ \E triage_result \in TriageResults :
          SubmitForReview(triage_result, TRUE)
             /\ UNCHANGED <<storeVars, fheVars, authVars, triageVars, limitVars>>
    \/ \E clinician_id \in ClinicianIds, priority_filter \in {"", "high"}, limit \in {1, 20} :
          GetPendingCases(clinician_id, priority_filter, limit)
             /\ UNCHANGED <<storeVars, fheVars, authVars, triageVars, limitVars>>
    \/ \E case_id \in CaseIds, clinician_id \in ClinicianIds, decision \in Decisions,
          writable \in BOOLEAN :
          SubmitReview(case_id, clinician_id, decision, writable)
             /\ UNCHANGED <<storeVars, fheVars, authVars, triageVars, limitVars>>
    \/ ReviewReturn /\ UNCHANGED <<storeVars, fheVars, authVars, triageVars, limitVars>>

NextReviewThreads ==
    \/ NewTrail("review") /\ UNCHANGED <<storeVars, fheVars, authVars, appVars>>
    \/ \E triage_result \in TriageResults :
          SubmitForReview(triage_result, TRUE)
             /\ UNCHANGED <<storeVars, fheVars, authVars, triageVars, limitVars>>
    \/ \E t \in ReviewThreads, case_id \in CaseIds, decision \in Decisions :
          ReviewLoad(t, case_id, "dr1", decision)
             /\ UNCHANGED <<storeVars, fheVars, authVars, triageVars, limitVars>>
    \/ \E t \in ReviewThreads :
          ReviewSave(t) /\ UNCHANGED <<storeVars, fheVars, authVars, triageVars, limitVars>>
    \/ \E t \in ReviewThreads :
          ReviewLog(t) /\ UNCHANGED <<storeVars, fheVars, authVars, triageVars, limitVars>>
    \/ ReviewReturn /\ UNCHANGED <<storeVars, fheVars, authVars, triageVars, limitVars>>

NextLimit ==
    \/ \E client_ip \in ClientIps, endpoint \in Endpoints, time_passed \in ClockSteps :
          CheckRateLimit(client_ip, endpoint, time_passed)
             /\ UNCHANGED <<storeVars, ledgerVars, fheVars, authVars, triageVars, reviewVars>>
    \/ CleanupOldEntries
          /\ UNCHANGED <<storeVars, ledgerVars, fheVars, authVars, triageVars, reviewVars>>

SpecStore  == Init /\ [][NextStore]_vars
SpecLedger == Init /\ [][NextLedger]_vars
SpecFHE    == Init /\ [][NextFHE]_vars
SpecAuth   == Init /\ [][NextAuth]_vars
SpecStoreRace == Init /\ [][NextStoreRace]_vars
SpecLedgerThreads == Init /\ [][NextLedgerThreads]_vars
SpecTrailRace == Init /\ [][NextTrailRace]_vars
SpecTriage == Init /\ [][NextTriage]_vars
SpecReview == Init /\ [][NextReview]_vars
SpecReviewThreads == Init /\ [][NextReviewThreads]_vars
SpecLimit == Init /\ [][NextLimit]_vars

\* ==== claims ===============================================================

\* ---- BiometricAuthService.verify ------------------------------------------

VerifyDone == authLast.op = "verify"

HasRecord(token_id) == path_for(record_name(token_id)) \in DOMAIN files

\* The stored baseline of a token as the service decrypts it now.
StoredBaseline(token_id) ==
    he_decrypt(fhe, from_bytes(bytes_fromhex(
        ciphertext_of(read(files, storeKey, record_name(token_id)).val))))

TotalDiff(a, b) ==
    LET part[i \in 0..Len(a)] ==
            IF i = 0 THEN 0
            ELSE part[i - 1] + (IF a[i] >= b[i] THEN a[i] - b[i] ELSE b[i] - a[i])
    IN  part[Len(a)]

\* C1: verify of a token id that has no stored record returns False and
\* raises nothing, whatever the vector and the tolerance, after any calls.
C1_MissingTokenIsFalse ==
    (VerifyDone /\ ~HasRecord(authLast.token))
    => (authLast.kind = "return" /\ authLast.val = FALSE)

C1_Witness ==
    /\ VerifyDone
    /\ ~HasRecord(authLast.token)
    /\ DOMAIN enrolled # {}
    /\ authLast.vector \in {enrolled[t] : t \in DOMAIN enrolled}
    /\ authLast.kind = "return"
    /\ authLast.val = FALSE

\* C2: verify of an enrolled token with a vector whose length differs from
\* the decrypted baseline's returns False and raises nothing.
C2_WrongLengthIsFalse ==
    ( /\ VerifyDone
      /\ authLast.token \in DOMAIN enrolled
      /\ Len(StoredBaseline(authLast.token)) # Len(authLast.vector) )
    => (authLast.kind = "return" /\ authLast.val = FALSE)

C2_Witness ==
    /\ VerifyDone
    /\ authLast.token \in DOMAIN enrolled
    /\ Len(StoredBaseline(authLast.token)) = 2
    /\ Len(authLast.vector) = 1
    /\ authLast.vector[1] = StoredBaseline(authLast.token)[1]
    /\ authLast.kind = "return"
    /\ authLast.val = FALSE

ReadOfWritten ==
    /\ storeLast.op = "read"
    /\ storeLast.name \in DOMAIN written
    /\ files[path_for(storeLast.name)].intact

ReadOfMissing ==
    /\ storeLast.op = "read"
    /\ path_for(storeLast.name) \notin DOMAIN files

\* C7: read(name) on a record whose stored bytes were corrupted or tampered
\* with reports IntegrityFailure: no payload, no default, no absent value,
\* and no raw error of the cryptographic library.
C7_CorruptReadIsIntegrityFailure ==
    ( /\ storeLast.op = "read"
      /\ path_for(storeLast.name) \in DOMAIN files
      /\ ~files[path_for(storeLast.name)].intact )
    => (storeLast.kind = "raise" /\ storeLast.err = "IntegrityFailure")

\* C8 as stated: for every JSON-serializable payload, write(name, payload)
\* then read(name) returns a value deeply equal to payload, and read of a
\* name never written returns the absent value (None) without raising.
C8_RoundTripEverySerializable ==
    /\ ReadOfWritten =>
          /\ storeLast.kind = "return"
          /\ DeepEqual(storeLast.val, written[storeLast.name])
    /\ ReadOfMissing => (storeLast.kind = "return" /\ storeLast.val = PyNone)

\* C8 amended: the round trip holds for payloads built only from JSON's own
\* types (None, bool, int, str, list, dict with str keys); read of a name
\* never written returns None without raising.
C8_RoundTripJsonNative ==
    /\ (ReadOfWritten /\ JsonNative(written[storeLast.name])) =>
          /\ storeLast.kind = "return"
          /\ DeepEqual(storeLast.val, written[storeLast.name])
    /\ ReadOfMissing => (storeLast.kind = "return" /\ storeLast.val = PyNone)

C8_Witness ==
    /\ ReadOfWritten
    /\ written[storeLast.name].t = "dict"
    /\ Len(written[storeLast.name].items) = 2
    /\ JsonNative(written[storeLast.name])
    /\ storeLast.kind = "return"
    /\ DeepEqual(storeLast.val, written[storeLast.name])
    /\ \E other \in DOMAIN written : other # storeLast.name

\* C9: the ledger is append-only under log_event: every call that returned
\* added exactly one line after the lines already there, so the ledger holds
\* one line per returned call, in call order, each carrying the signature
\* that call returned.
C9_LedgerAppendOnly ==
    /\ Len(ledger) = Len(logged)
    /\ \A i \in 1..Len(ledger) : ledger[i].signature = logged[i]

C9_Witness ==
    /\ Len(ledger) = 2
    /\ ledger[1] # ledger[2]
    /\ ledgerLast.kind = "return"
    /\ ledgerLast.sig = ledger[2].signature

\* C10: every line log_event appended verifies: re-serializing the line's
\* {timestamp, payload} with sorted keys gives the bytes that were signed and
\* the signature checks against public_key_pem() of every trail instance.
C10_EveryLineVerifies ==
    \A i \in 1..Len(ledger) : \A inst \in Trails :
        trailKey[inst] # 0 => VerifyLine(ledger[i], public_key_pem(inst))

\* C19: initialise is idempotent on one instance.  A call that finds the
\* instance initialised does nothing (no key generation, no load, no write),
\* and whenever the instance is marked initialised both files exist and hold
\* the key pair the instance uses.
C19_InitialiseIdempotent ==
    /\ [](fhe.initialised =>
            /\ fhe.ctxFile # 0 /\ fhe.secFile # 0
            /\ fhe.ctxFile = fhe.heCtx /\ fhe.secFile = fhe.heSec)
    /\ [][\A t \in FheThreads :
            (pc[t] = "initialise" /\ fhe.initialised /\ pc'[t] \notin {"initialise", "idle"})
               => (pc'[t] = "use" /\ fhe' = fhe)]_vars

\* C20: decrypt_vector on a context that holds no secret key (never
\* initialised with one) fails with KeyUnavailable: it decrypts nothing and
\* neither generates nor loads key material.
C20_DecryptNeedsKey ==
    [][(authLast.op = "none" /\ authLast'.op = "decrypt_vector" /\ fhe.heSec = 0)
          => /\ authLast'.kind = "raise"
             /\ authLast'.err = "KeyUnavailable"
             /\ fhe' = fhe]_vars

\* ---- what is persisted of an enrolled vector --------------------------------

\* A Python value holds the numbers of v as a list or tuple, at any depth.
RECURSIVE HoldsVector(_, _)
HoldsVector(obj, v) ==
    CASE obj.t \in {"list", "tuple"} ->
            \/ /\ Len(obj.items) = Len(v)
               /\ \A i \in 1..Len(v) : obj.items[i] = PyInt(v[i])
            \/ \E i \in 1..Len(obj.items) : HoldsVector(obj.items[i], v)
      [] obj.t = "dict" -> \E i \in 1..Len(obj.items) : HoldsVector(obj.items[i].v, v)
      [] OTHER -> FALSE

\* The record a store file holds, as the holder of the master key reads it.
RecordIn(path) == json_loads(files[path].plain)

\* C12: no persisted file holds an enrolled vector in cleartext.  Every store
\* file is a Fernet token under the master key whose record is exactly
\* {"ciphertext": <hex>}, the hex of a ciphertext made under a key pair of the
\* FHE context (never the bare values); no record and no ledger line holds
\* the numbers of an enrolled vector; the key files hold keys.
C12_NoCleartextVector ==
    /\ \A path \in DOMAIN files :
          /\ files[path].key \in 1..masterKeysMade
          /\ RecordIn(path).t = "dict"
          /\ Len(RecordIn(path).items) = 1
          /\ RecordIn(path).items[1].k = PyStr(S_ciphertext)
          /\ RecordIn(path).items[1].v.t = "str"
          /\ from_bytes(bytes_fromhex(ciphertext_of(RecordIn(path)))).key
                \in 1..fhe.keysMade
          /\ \A t \in DOMAIN enrolled : ~HoldsVector(RecordIn(path), enrolled[t])
    /\ \A i \in DOMAIN ledger : \A t \in DOMAIN enrolled :
          ~HoldsVector(json_loads(ledger[i].payload), enrolled[t])
    /\ masterKeyFile \in 0..masterKeysMade
    /\ fhe.ctxFile \in 0..fhe.keysMade /\ fhe.secFile \in 0..fhe.keysMade

\* Two vectors enrolled, one of them encrypted without noise: its record is
\* there, and decrypts to the very vector.
C12_Witness ==
    /\ DOMAIN enrolled = TokenIds
    /\ \A t \in TokenIds : HasRecord(t)
    /\ \E t \in TokenIds : StoredBaseline(t) = enrolled[t] /\ Len(enrolled[t]) = 2
    /\ authLast.op = "enrol"

\* C13: every security-relevant action is recorded in the compliance ledger:
\* each enrol call and each verify call appends a ledger event (log_event adds
\* one line) by the time the call is over.
C13_EverySecurityActionLogged ==
    [][(authLast.op = "none" /\ authLast'.op \in {"enrol", "verify"})
          => Len(ledger') = Len(ledger) + 1]_vars

\* C14: enrol of a vector shorter than min_length fails with InvalidInput and
\* leaves the stored state as it was: no token issued, no record written.
C14_ShortVectorRejected ==
    [][( /\ authLast.op = "none"
         /\ authLast'.op = "enrol"
         /\ Len(authLast'.vector) < min_length )
          => /\ authLast'.kind = "raise"
             /\ authLast'.err = "InvalidInput"
             /\ files' = files
             /\ enrolled' = enrolled]_vars

RecordPath(token_id) == path_for(record_name(token_id))

\* C15: a token is immutable once created.  No enrol or verify call changes
\* or deletes the record of a token enrolled before it, and an enrol that
\* returns has issued a token id that had no record and written its record.
C15_TokenImmutable ==
    [][ /\ \A t \in DOMAIN enrolled :
              /\ RecordPath(t) \in DOMAIN files'
              /\ files'[RecordPath(t)] = files[RecordPath(t)]
        /\ (authLast.op = "none" /\ authLast'.op = "enrol" /\ authLast'.kind = "return")
              => /\ authLast'.token \notin DOMAIN enrolled
                 /\ RecordPath(authLast'.token) \notin DOMAIN files
                 /\ RecordPath(authLast'.token) \in DOMAIN files' ]_vars

\* A second enrolment has just returned; the record of the first token is
\* still there beside the new one, with its own baseline.
C15_Witness ==
    /\ authLast.op = "enrol"
    /\ authLast.kind = "return"
    /\ \E other \in DOMAIN enrolled \ {authLast.token} :
          /\ HasRecord(other)
          /\ HasRecord(authLast.token)
          /\ StoredBaseline(other) # StoredBaseline(authLast.token)

\* The FHE context of a process that has just started, over the same files.
FreshContext(f) == [f EXCEPT !.heCtx = 0, !.heSec = 0, !.initialised = FALSE]

\* C16: verify has no effect on persisted state, and each call is evaluated
\* on its own.  A verify call, whatever it returns, leaves the token records,
\* the master-key file, the two FHE files and the ledger with its key file as
\* they were, and its outcome is the one the same call has in a process that
\* has served no call yet: no earlier call, passed or failed, bears on it.
C16_VerifyIsPure ==
    [][(authLast.op = "none" /\ authLast'.op = "verify")
          => /\ files' = files
             /\ masterKeyFile' = masterKeyFile
             /\ fhe'.ctxFile = fhe.ctxFile
             /\ fhe'.secFile = fhe.secFile
             /\ fhe'.keysMade = fhe.keysMade
             /\ ledger' = ledger
             /\ signKeyFile' = signKeyFile
             /\ authLast' = verify(FreshContext(fhe), files, storeKey, authLast'.token,
                                   authLast'.vector, authLast'.tol).out]_vars

\* A verify of an enrolled token has just failed on the distance; the token's
\* record is still there.
C16_Witness ==
    /\ VerifyDone
    /\ authLast.token \in DOMAIN enrolled
    /\ HasRecord(authLast.token)
    /\ Len(authLast.vector) = Len(StoredBaseline(authLast.token))
    /\ authLast.kind = "return"
    /\ authLast.val = FALSE

\* ---- log_event calls side by side ------------------------------------------

\* How many times x occurs in a sequence.
Count(seq, x) == Cardinality({i \in DOMAIN seq : seq[i] = x})

C17_MasterKeyOnce ==
    /\ masterKeysMade <= 1
    /\ \A c \in Ctors : ctorPc[c] = "ready" => ctorKey[c] = masterKeyFile
    /\ (storeLast.op = "read" /\ path_for(storeLast.name) \in DOMAIN files)
          => storeLast.kind = "return"

\* ---- ledger lines altered after the fact -----------------------------------

\* The data a JSON text stands for is the same: what json.loads makes of both
\* is equal (objects as mappings, whatever the order of their members).
SameData(text1, text2) == DeepEqual(json_loads(text1), json_loads(text2))

LineAltered ==
    /\ auditLast.op = "verify"
    /\ \/ auditLast.line.timestamp # ledger[auditLast.index].timestamp
       \/ auditLast.line.payload # ledger[auditLast.index].payload

LineDataAltered ==
    /\ auditLast.op = "verify"
    /\ \/ ~SameData(auditLast.line.timestamp, ledger[auditLast.index].timestamp)
       \/ ~SameData(auditLast.line.payload, ledger[auditLast.index].payload)

\* C11 as stated: any change to the timestamp or to the payload of a line
\* log_event wrote (any other bytes in their place) makes the verification
\* of the line against the published public key fail.
C11_AnyChangeFailsVerification == LineAltered => ~auditLast.ok

\* C11 amended: any change to the data of the timestamp or of the payload
\* (the line parses to another timestamp or to another payload) makes the
\* verification of the line against the published public key fail.
C11_DataChangeFailsVerification == LineDataAltered => ~auditLast.ok

\* A line that verifies as written no longer does with the other n in its
\* payload.
C11_Witness ==
    /\ LineDataAltered
    /\ VerifyLine(ledger[auditLast.index], trailKey["triage"])
    /\ auditLast.line.timestamp = ledger[auditLast.index].timestamp
    /\ auditLast.line.payload.t = "jobj"
    /\ Len(auditLast.line.payload.items) = 2
    /\ ledger[auditLast.index].payload.t = "jobj"
    /\ Len(ledger[auditLast.index].payload.items) = 2
    /\ ~auditLast.ok

\* C5: FHE context initialisation runs at most once per persisted context:
\* racing first users never generate keys twice, and no ciphertext handed out
\* is under a key pair other than the persisted one.
C5_InitialiseAtMostOnce ==
    /\ keyGenCalls <= 1
    /\ \A k \in issued : fhe.secFile = k /\ fhe.ctxFile = k

\* C6: initialise, finding exactly one of the two persisted files, fails with
\* a configuration error: it takes no other way out of its test.  (Stated for
\* a thread that has the context to itself: every other thread is idle.)
LoneFile == (fhe.ctxFile # 0) # (fhe.secFile # 0)

C6_LoneFileIsFatal ==
    [][\A t \in FheThreads :
          ( /\ pc[t] = "initialise"
            /\ \A u \in FheThreads \ {t} : pc[u] = "idle" /\ pc'[u] = "idle"
            /\ pc'[t] # "initialise"
            /\ ~fhe.initialised
            /\ LoneFile )
          => pc'[t] = "ConfigurationError"]_vars

\* ---- SecureStore.write: what it overwrites --------------------------------

Serializable(payload) == json_dumps(payload, TRUE) # JTypeError

\* C22: log_event with a payload that cannot be serialized is rejected as
\* InvalidInput, and the ledger has the same lines after the failed call as
\* before it.
C22_MalformedPayloadRejected ==
    [][\A inst \in Trails, ts \in Timestamps, payload \in LedgerPayloads :
          (LogEvent(inst, ts, payload) /\ ~Serializable(payload))
             => /\ ledgerLast'.kind = "raise"
                /\ ledgerLast'.err = "InvalidInput"
                /\ ledger' = ledger]_vars

\* ---- enrol: what it stores and what it returns -----------------------------

\* C23: an enrol that returns has persisted the ciphertext in the store under
\* biometric_<token_id> for the token id it returns, and the hex ciphertext
\* it returns is the one stored for that token.
C23_EnrolReturnsStoredCiphertext ==
    (authLast.op = "enrol" /\ authLast.kind = "return")
    => /\ HasRecord(authLast.token)
       /\ read(files, storeKey, record_name(authLast.token)).kind = "return"
       /\ ciphertext_of(read(files, storeKey, record_name(authLast.token)).val)
             = authLast.ct
       /\ from_bytes(bytes_fromhex(authLast.ct)).vec
             = StoredBaseline(authLast.token)

\* An enrol of a two-value vector has returned its token and six hex digits
\* of ciphertext (key byte and two values), with noise on the baseline.
C23_Witness ==
    /\ authLast.op = "enrol"
    /\ authLast.kind = "return"
    /\ Len(authLast.vector) = 2
    /\ Len(authLast.ct) = 6
    /\ HasRecord(authLast.token)
    /\ ciphertext_of(RecordIn(RecordPath(authLast.token))) = authLast.ct
    /\ StoredBaseline(authLast.token) # authLast.vector

\* C24: every line of the ledger verifies against the public key of every
\* ComplianceTrail instance on the same ledger, and however the constructions
\* follow or overlap one another the signing key is generated at most once and
\* every instance signs with the key that is in the key file.
C24_OneSigningKey ==
    /\ signKeysMade <= 1
    /\ \A inst \in Trails : trailPc[inst] = "ready" => trailKey[inst] = signKeyFile
    /\ \A i \in DOMAIN ledger, inst \in Trails :
          trailPc[inst] = "ready" => VerifyLine(ledger[i], public_key_pem(inst))

\* The biometric_reference member of the event on a ledger line.
ReferenceOf(line) ==
    LET members == line.payload.items
        at == CHOOSE j \in DOMAIN members :
                 members[j].k = <<98, 105, 111, 109, 101, 116, 114, 105, 99, 95, 114, 101, 102, 101, 114, 101, 110, 99, 101>>
    IN  members[at].v

\* C25: on /triage, a triage_completed event whose biometric_reference is a
\* token (not null) is logged only after verify succeeded for that token in
\* the same request.
C25_ReferenceOnlyAfterVerify ==
    (triageLast.op = "triage" /\ triageLast.logged
        /\ ReferenceOf(ledger[Len(ledger)]) # JNull)
    => (triageLast.verify_called /\ triageLast.verified)

\* verify, were it called with the request's token and vector, returns False.
VerifyReturnsFalse(biometric_token, biometric_vector) ==
    LET v == verify(fhe, files, storeKey, biometric_token.val, biometric_vector.val,
                    DefaultTolerance)
    IN  v.out.kind = "return" /\ ~v.out.val

\* The request was turned away before the triage service ran.
RejectedBeforeTriage ==
    /\ triageLast'.status \in {400, 401}
    /\ ~triageLast'.predicted
    /\ ~triageLast'.logged
    /\ ledger' = ledger
    /\ logged' = logged

\* C26: on /triage, when a biometric vector with at least one component is
\* presented and verify returns false for it (or it comes without a token),
\* the request is rejected before the triage service runs: no prediction, no
\* triage_completed event on the ledger.
C26_FailedVerifyRejected ==
    [][\A biometric_token \in RequestTokens, biometric_vector \in RequestVectors,
         index \in PredictionIndexes :
          (/\ RunTriage(biometric_token, biometric_vector, index, 1)
           /\ biometric_vector.some
           /\ biometric_vector.val # <<>>
           /\ \/ token_missing(biometric_token)
              \/ VerifyReturnsFalse(biometric_token, biometric_vector))
          => RejectedBeforeTriage]_vars

\* An enrolled token with a vector that does not match: 401, nothing predicted.
C26_Witness ==
    /\ triageLast.op = "triage"
    /\ triageLast.vector.some
    /\ triageLast.vector.val # <<>>
    /\ triageLast.token = Some("tokA")
    /\ HasRecord("tokA")
    /\ triageLast.verify_called
    /\ triageLast.status = 401
    /\ ~triageLast.predicted

\* C26 as stated: for every vector presented, the empty list included.
C26_AnyVectorRejected ==
    [][\A biometric_token \in RequestTokens, biometric_vector \in RequestVectors,
         index \in PredictionIndexes :
          (/\ RunTriage(biometric_token, biometric_vector, index, 1)
           /\ biometric_vector.some
           /\ \/ token_missing(biometric_token)
              \/ VerifyReturnsFalse(biometric_token, biometric_vector))
          => RejectedBeforeTriage]_vars

\* The case ids on the lines of the review queue file.
QueuedIds == {reviewQueue[i].case_id : i \in DOMAIN reviewQueue}

\* C27: a case that submit_for_review accepted (it returned the case_id) is
\* still in the review queue file, however submit_for_review and
\* submit_review calls interleave.
C27_AcceptedNeverLost == accepted \subseteq QueuedIds

\* The status the queue file holds for a case id.
StatusOf(queue, case_id) ==
    queue[CHOOSE i \in DOMAIN queue : queue[i].case_id = case_id].status

\* The ids of the cases of the queue file that are pending or in review.
OpenIds == {id \in QueuedIds : StatusOf(reviewQueue, id) \in {"pending", "in_review"}}

\* The ids a get_pending_cases call has returned.
ReturnedIds == {reviewLast.val[i] : i \in DOMAIN reviewLast.val}

GotPending == reviewLast.op = "get_pending_cases" /\ reviewLast.kind = "return"

\* Created pending, never pending again after a review.
StatusSteps ==
    [][/\ \A id \in QueuedIds' \ QueuedIds : StatusOf(reviewQueue', id) = "pending"
       /\ \A id \in QueuedIds \cap QueuedIds' :
             /\ StatusOf(reviewQueue, id) # "pending"
                   => StatusOf(reviewQueue', id) # "pending"
             /\ StatusOf(reviewQueue', id) # StatusOf(reviewQueue, id)
                   => /\ reviewLast'.op = "submit_review"
                      /\ StatusOf(reviewQueue', id)
                            \in {"in_review", "approved", "rejected", "escalated"}]_vars

\* C28: a case is created pending and its status never returns to pending:
\* submit_review sets it to in_review, approved, rejected or escalated only.
\* get_pending_cases returns only cases whose status is pending or in_review,
\* never an approved, rejected or escalated one: those of the priority asked
\* for, at most limit of them, and all of them when no priority is asked for
\* and they are no more than limit.
C28_StatusNeverBackToPending ==
    /\ StatusSteps
    /\ [](GotPending =>
            /\ ReturnedIds \subseteq OpenIds
            /\ Len(reviewLast.val) = Cardinality(ReturnedIds)
            /\ Len(reviewLast.val) <= reviewLast.limit
            /\ (reviewLast.priority_filter = ""
                  /\ Cardinality(OpenIds) <= reviewLast.limit) => ReturnedIds = OpenIds)

\* One case approved, the other in review: only the second is returned.
C28_Witness ==
    /\ GotPending
    /\ reviewLast.val = <<"case-2">>
    /\ Len(reviewQueue) = 2
    /\ StatusOf(reviewQueue, "case-1") = "approved"
    /\ StatusOf(reviewQueue, "case-2") = "in_review"

\* C28 as stated: get_pending_cases returns exactly the open cases.
C28_ReturnsExactlyOpenCases ==
    /\ StatusSteps
    /\ [](GotPending => ReturnedIds = OpenIds)

\* The event on a ledger line is the clinician_review_submitted of a case.
IsReviewEvent(line, case_id) ==
    /\ \E j \in DOMAIN line.payload.items :
          /\ line.payload.items[j].k = S_event
          /\ line.payload.items[j].v = JStr(chars("clinician_review_submitted"))
    /\ \E j \in DOMAIN line.payload.items :
          /\ line.payload.items[j].k = chars("case_id")
          /\ line.payload.items[j].v = JStr(chars(case_id))

\* C29: submit_review is all-or-nothing.  When it raises (clinician_id or
\* case_id empty, decision invalid, case unknown, the compliance event not
\* logged) the review queue is as before and no event was appended; when it
\* returns True the queue holds the case's new status and exactly one
\* clinician_review_submitted event was appended.
C29_SubmitReviewAllOrNothing ==
    [][(reviewLast'.op = "submit_review")
         => /\ reviewLast'.kind = "raise"
                 => (reviewQueue' = reviewQueue /\ ledger' = ledger)
            /\ reviewLast'.kind = "return"
                 => /\ reviewLast'.case_id \in QueuedIds'
                    /\ StatusOf(reviewQueue', reviewLast'.case_id)
                          = lower(reviewLast'.decision)
                    /\ Len(ledger') = Len(ledger) + 1
                    /\ SubSeq(ledger', 1, Len(ledger)) = ledger
                    /\ IsReviewEvent(ledger'[Len(ledger')], reviewLast'.case_id)]_vars

\* The tokens a request finds in its bucket once the refill for the time
\* since the last update is added: requests_per_minute / 60 a second, up to
\* burst_size.
TokensAfterRefill(bs, key, now) ==
    LET had  == IF key \in DOMAIN bs THEN bs[key].tokens ELSE burst_size * TokenUnit
        idle == IF key \in DOMAIN bs THEN now - bs[key].last_update ELSE 0
        sum  == had + idle * requests_per_minute
    IN  IF sum < burst_size * TokenUnit THEN sum ELSE burst_size * TokenUnit

=============================================================================
